---- MODULE Spec2Model ----
(***************************************************************************)
(* RBAC-aware authorization cache with permission-filtered watches.        *)
(*                                                                         *)
(* The model follows OptimizedClusterSetCache (the permission index, its   *)
(* rebuild, the role / binding event handlers, List and the notification   *)
(* fan-out) and ModernCacheWatcher (GroupMembershipChanged and the         *)
(* internal event queue).  The upstream listers are the three stores       *)
(* clusterRoles, clusterRoleBindings and clusterSets.                      *)
(*                                                                         *)
(* Resource names are numbers; their numeric order stands for the lexical  *)
(* order of sets.String.List().                                            *)
(***************************************************************************)
EXTENDS Integers, Sequences, FiniteSets, TLC

\* ------------------------------------------------------------------ bounds
\* The resource versions a name goes through, and the capacity of a watch's
\* internal event channel (WatcherOptions.EventBufferSize).
MaxRV == 2
MaxQueue == 2
MaxStream == 3
MaxRuns == 2
MaxStops == 2
MaxNotifications == 3
MaxSets == 3           \* sets.Set objects alive at a time
MaxRules == 2          \* rules of a role handed to the extractor

Names == {1, 2}
SortedNames == <<1, 2>>
RVs == 1..MaxRV
Labels == {"x", "y"}
Everything == "*"
Selectors == {Everything} \cup Labels

Users == {"alice", "bob"}
Groups == {"ops"}
RoleNames == {"r1", "r2"}
BindingNames == {"b1", "b2"}
WatcherIds == {"w1", "w2"}

TargetGroup == "cluster.open-cluster-management.io"
TargetResource == "managedclustersets"

\* ------------------------------------------------------ roles and bindings
\* A rule that grants view on the named cluster sets.
ViewRule(names) ==
    [apiGroups |-> {TargetGroup}, resources |-> {TargetResource},
     verbs |-> {"get", "list"}, resourceNames |-> names]

\* A rule of another api group: it never contributes.
OtherRule ==
    [apiGroups |-> {"apps"}, resources |-> {"deployments"},
     verbs |-> {"get"}, resourceNames |-> {}]

\* A wildcard rule without resource names: global access.
GlobalRule ==
    [apiGroups |-> {"*"}, resources |-> {"*"}, verbs |-> {"get"},
     resourceNames |-> {}]

RoleDefs == { <<ViewRule({1})>>, <<OtherRule, ViewRule({2})>>, <<GlobalRule>> }

User(n) == [kind |-> "User", name |-> n]
Group(n) == [kind |-> "Group", name |-> n]

SubjectLists ==
    { <<User("alice")>>,
      <<User("bob")>>,
      <<Group("ops"), [kind |-> "ServiceAccount", name |-> "sa"]>> }

\* Binding b1 refers to role r1 and binding b2 to role r2.
RoleRefOf(b) == IF b = "b1" THEN "r1" ELSE "r2"

\* ---------------------------------------------------------------- helpers
Remove(f, k) == [x \in DOMAIN f \ {k} |-> f[x]]
Put(f, k, v) == [x \in DOMAIN f \cup {k} |-> IF x = k THEN v ELSE f[x]]
Empty == [x \in {} |-> {}]

VARIABLES
    clusterRoles,         \* role lister: role name -> rules
    clusterRoleBindings,  \* binding lister: binding name -> [roleRef, subjects]
    clusterSets,          \* cluster set lister: name -> [rv, label]
    userPermissions,      \* permissionCache.userPermissions
    groupPermissions,     \* permissionCache.groupPermissions
    watchers,             \* c.watchers, in registration order
    knownResources,       \* per watcher: name -> last resource version
    internalEvents,       \* per watcher: the buffered internal channel
    hung,                 \* handler goroutines blocked for good
    listResult,           \* what the last List call returned
    lastOp,               \* the operation that made the last step
    lastErr,              \* whether its rebuild met an upstream read error
    mu,                   \* permissionCache.mu: [writer, readers]
    pc,                   \* where the handler goroutine is in its rebuild
    pending,                 \* the listed bindings the rebuild has yet to process
    rpc,                  \* where a caller is in getAccessibleResourceNames
    acc,                  \* the caller's accessibleNames
    committed,            \* the index as the last holder of the write lock left it
    seen,                 \* the committed indexes during the caller's lookup
    timedOut,             \* the watches whose handleEventTimeout was entered
    created,              \* the watches that have been constructed
    started,              \* per watcher: w.started
    ctxDone,              \* per watcher: w.ctx is cancelled
    errors,               \* per watcher: how many errors w.errors holds (buffer 1)
    initialResources,     \* per watcher: w.initialResources
    runs,                 \* per watcher: its run goroutines, [pc, i] each
    stream,               \* per watcher: what the client received on ResultChan
    closes,               \* per watcher: how often resultChan was closed
    stopCalls,            \* per watcher: how often Stop was called
    notifier,             \* per informer goroutine: where it is in its handler
    notifications,        \* how many notifications have been built so far
    sent,                 \* per watcher: for each event sent to internalEvents,
                          \* the number of the notification that caused it
    stopped,              \* the context of the cache is cancelled
    legacy,               \* the mapper is a ClusterSetMapper (helpers), not a
                          \* ClusterSetResourceMapper
    heap,                 \* the sets.Set objects: address -> members
    setToResources,       \* the map of the mapper: set name -> address, 0 = no key
    held,                 \* the set the caller holds: its address, 0 = none
    returned,             \* what the set held was when a read returned it
    call,                 \* the last call on the mapper, [op, member, set]
    merged,               \* the operands and the results of Merge
    extracted,            \* a role handed to the extractor and what came back
    mappers,              \* two mappers: mapper -> (set name -> members)
    mutex,                \* their mutexes: mapper -> the caller holding Lock
    procs,                \* the callers of the two mappers, each call's position
    boot                  \* Start of the cache: informers synced, phase

vars == <<clusterRoles, clusterRoleBindings, clusterSets, userPermissions,
          groupPermissions, watchers, knownResources, internalEvents, hung,
          listResult, lastOp, lastErr, mu, pc, pending, rpc, acc, committed, seen,
          timedOut, created, started, ctxDone, errors, initialResources, runs, stream,
          closes, stopCalls, notifier, notifications, sent, stopped, legacy, heap,
          setToResources, held, returned, call, merged, extracted, mappers,
          mutex, procs, boot>>

extractVars == <<extracted>>

copyVars == <<mappers, mutex, procs>>

bootVars == <<boot>>

mapperVars == <<legacy, heap, setToResources, held, returned, call, merged>>

lockVars == <<mu, pc, pending, rpc, acc, committed, seen>>

orderVars == <<notifier, notifications, sent>>

runVars == <<created, started, ctxDone, errors, initialResources, runs, stream, closes,
             stopCalls>>


\* ------------------------------------------------------ resource-name extractor
APIGroupMatches(rule, group) == \E g \in rule.apiGroups : g = "*" \/ g = group

VerbMatches(rule, verb) == \E v \in rule.verbs : v = "*" \/ v = verb

ResourceMatches(rule, resource) ==
    \E r \in rule.resources : r = "*" \/ r = resource

RuleContributes(rule, group, resource) ==
    /\ APIGroupMatches(rule, group)
    /\ VerbMatches(rule, "get") \/ VerbMatches(rule, "list") \/ VerbMatches(rule, "*")
    /\ ResourceMatches(rule, resource)

RECURSIVE ExtractFrom(_, _, _, _, _)
ExtractFrom(rules, i, names, group, resource) ==
    IF i > Len(rules) THEN [names |-> names, all |-> FALSE]
    ELSE IF ~RuleContributes(rules[i], group, resource)
         THEN ExtractFrom(rules, i + 1, names, group, resource)
    ELSE IF rules[i].resourceNames = {} THEN [names |-> names, all |-> TRUE]
    ELSE ExtractFrom(rules, i + 1, names \cup rules[i].resourceNames, group, resource)

\* Mutant: no early return; every contributing rule is visited.
GetViewResourceFromClusterRole_NoEarlyExit(clusterRole, group, resource) ==
    LET contributing == { i \in 1..Len(clusterRole) :
                            RuleContributes(clusterRole[i], group, resource) }
    IN [names |-> UNION { clusterRole[i].resourceNames : i \in contributing },
        all |-> \E i \in contributing : clusterRole[i].resourceNames = {}]

GetViewResourceFromClusterRole(clusterRole, group, resource) ==
    ExtractFrom(clusterRole, 1, {}, group, resource)

\* Mutant: update alone is taken for admin.
hasRequiredVerbs_UpdateOnly(rule, permissionType) ==
    \/ VerbMatches(rule, "*")
    \/ permissionType = "view" /\ (VerbMatches(rule, "get") \/ VerbMatches(rule, "list"))
    \/ permissionType = "admin" /\ VerbMatches(rule, "update")

hasRequiredVerbs(rule, permissionType) ==
    IF VerbMatches(rule, "*") THEN TRUE
    ELSE IF permissionType = "view"
         THEN VerbMatches(rule, "get") \/ VerbMatches(rule, "list")
    ELSE LET hasUpdate == VerbMatches(rule, "update")
             hasRead == VerbMatches(rule, "get") \/ VerbMatches(rule, "list")
         IN hasUpdate /\ hasRead

\* The rules the extractor is tried on: any verbs and resource names on the
\* target resource, and a rule of another api group.
Verbs == {"get", "list", "update", "*"}

ExtractRules ==
    { [apiGroups |-> {TargetGroup}, resources |-> {TargetResource},
       verbs |-> v, resourceNames |-> n] : v \in SUBSET Verbs, n \in SUBSET Names }
    \cup {OtherRule}

ExtractRoles == UNION { [1..k -> ExtractRules] : k \in 1..MaxRules }

NoExtract ==
    [rules |-> <<>>, names |-> {}, all |-> FALSE, view |-> <<>>, admin |-> <<>>,
     done |-> FALSE]

\* No role has been handed to the extractor.
ExtractIdle == extracted = NoExtract

\* ---------------------------------------------------------- permission index
EmptyIndex == [users |-> Empty, groups |-> Empty]

CurrentIndex == [users |-> userPermissions, groups |-> groupPermissions]

\* Mutant: the subject's entry is overwritten instead of united.
UnionInto_Overwrite(perms, key, names) == Put(perms, key, names)

\* perms[key] = perms[key].Union(names), creating the entry when it is nil.
UnionInto(perms, key, names) ==
    Put(perms, key, (IF key \in DOMAIN perms THEN perms[key] ELSE {}) \cup names)

AddSubject(idx, subject, names) ==
    CASE subject.kind = "User" ->
           [idx EXCEPT !.users = UnionInto(idx.users, subject.name, names)]
      [] subject.kind = "Group" ->
           [idx EXCEPT !.groups = UnionInto(idx.groups, subject.name, names)]
      [] OTHER -> idx

RECURSIVE AddSubjects(_, _, _, _)
AddSubjects(idx, subjects, i, names) ==
    IF i > Len(subjects) THEN idx
    ELSE AddSubjects(AddSubject(idx, subjects[i], names), subjects, i + 1, names)

\* Mutant: the expansion stops after the first listed cluster set.
AllClusterSetNames_FirstOnly(sets) ==
    IF DOMAIN sets = {} THEN {} ELSE { CHOOSE n \in DOMAIN sets : TRUE }

\* Mutant: the expansion yields every name ever granted, listed or not.
AllClusterSetNames_Unfiltered(sets) == Names

\* The names of clusterSetLister.List(labels.Everything()).
AllClusterSetNames(sets) == DOMAIN sets

\* Mutant: a binding whose role is absent empties the index built so far.
processClusterRoleBinding_AbsentRoleClears(idx, binding, roles, sets, listFails) ==
    IF binding.roleRef \notin DOMAIN roles THEN EmptyIndex
    ELSE LET ex == GetViewResourceFromClusterRole(
                       roles[binding.roleRef], TargetGroup, TargetResource)
         IN IF ex.all /\ listFails THEN idx
            ELSE LET resourceNames ==
                         IF ex.all THEN AllClusterSetNames(sets) ELSE ex.names
                 IN IF resourceNames = {} THEN idx
                    ELSE AddSubjects(idx, binding.subjects, 1, resourceNames)

\* One binding folded into idx.  listFails: the cluster set lister fails when
\* this binding asks for the global expansion.
processClusterRoleBinding(idx, binding, roles, sets, listFails) ==
    IF binding.roleRef \notin DOMAIN roles THEN idx
    ELSE LET ex == GetViewResourceFromClusterRole(
                       roles[binding.roleRef], TargetGroup, TargetResource)
         IN IF ex.all /\ listFails THEN idx
            ELSE LET resourceNames ==
                         IF ex.all THEN AllClusterSetNames(sets) ELSE ex.names
                 IN IF resourceNames = {} THEN idx
                    ELSE AddSubjects(idx, binding.subjects, 1, resourceNames)

RECURSIVE ProcessAll(_, _, _, _, _, _)
ProcessAll(idx, todo, bindings, roles, sets, failSets) ==
    IF todo = {} THEN idx
    ELSE LET b == CHOOSE x \in todo : TRUE
         IN ProcessAll(
                processClusterRoleBinding(idx, bindings[b], roles, sets, b \in failSets),
                todo \ {b}, bindings, roles, sets, failSets)

\* The index cleared, then repopulated from the binding lister.  failBindings:
\* the binding lister fails; failSets: the bindings at which the cluster set
\* lister fails.
rebuildPermissionCache(roles, bindings, sets, failBindings, failSets) ==
    IF failBindings THEN EmptyIndex
    ELSE ProcessAll(EmptyIndex, DOMAIN bindings, bindings, roles, sets, failSets)

IsGlobal(b, roles, bindings) ==
    /\ bindings[b].roleRef \in DOMAIN roles
    /\ GetViewResourceFromClusterRole(
           roles[bindings[b].roleRef], TargetGroup, TargetResource).all

\* The bindings at which a rebuild asks the cluster set lister for all names.
GlobalBindings(roles, bindings) ==
    { b \in DOMAIN bindings : IsGlobal(b, roles, bindings) }

\* Whether a rebuild with these inputs meets an upstream read error.
RebuildFailed(roles, bindings, failBindings, failSets) ==
    \/ failBindings
    \/ failSets \cap GlobalBindings(roles, bindings) # {}

\* The read failures a rebuild over these stores can meet: the binding lister
\* fails, or the cluster set lister fails at some of the global expansions.
Failures(roles, bindings) ==
    { [bindings |-> TRUE, sets |-> {}] }
    \cup { [bindings |-> FALSE, sets |-> fs] : fs \in SUBSET GlobalBindings(roles, bindings) }

NoFailure == [bindings |-> FALSE, sets |-> {}]

FailureInputs == [bindings : BOOLEAN, sets : SUBSET BindingNames]

\* ------------------------------------------------------------- filtered reads
\* Mutant: the groups of the caller are not consulted.
getAccessibleResourceNames_UserOnly(users, groups, userName, userGroups) ==
    IF userName \in DOMAIN users THEN users[userName] ELSE {}

getAccessibleResourceNames(users, groups, userName, userGroups) ==
    (IF userName \in DOMAIN users THEN users[userName] ELSE {})
    \cup UNION { groups[g] : g \in userGroups \cap DOMAIN groups }

Matches(selector, label) == selector = Everything \/ selector = label

ObjectOf(sets, n) == [name |-> n, rv |-> sets[n].rv, label |-> sets[n].label]

\* getFails: the name, if any, whose Get returns an error other than NotFound.
List(users, groups, sets, userName, userGroups, selector, getFails) ==
    LET accessibleNames ==
            getAccessibleResourceNames(users, groups, userName, userGroups)
    IN IF accessibleNames \cap getFails # {}
       THEN [err |-> TRUE, items |-> {}]
       ELSE [err |-> FALSE,
             items |-> { ObjectOf(sets, n) :
                           n \in { m \in accessibleNames \cap DOMAIN sets :
                                     Matches(selector, sets[m].label) } }]

ListObjects(users, groups, sets, userName, userGroups) ==
    List(users, groups, sets, userName, userGroups, Everything, {})

\* ------------------------------------------------------------------ watches
\* The subject of each watch: a user name and its groups.
UserOf(w) == IF w = "w1" THEN "alice" ELSE "bob"
GroupsOf(w) == IF w = "w1" THEN {"ops"} ELSE {}

Event(type, name, rv) == [type |-> type, name |-> name, rv |-> rv]

\* c.Get(name): the object, or NotFound.
GetFound(sets, n) == n \in DOMAIN sets

\* c.ConvertResource(name): the object, or a placeholder that carries the name.
ConvertResource(sets, n) == IF n \in DOMAIN sets THEN sets[n].rv ELSE 0

\* A send on the buffered internal channel goes through when there is room;
\* on a full channel the select ends in the event timeout.
HasRoom(queue) == Len(queue) < MaxQueue

\* knownResources.Range in the visiting order `order`; a known name that is
\* not accessible is dropped and a DELETED is sent for it.
RECURSIVE handleResourceDeletions(_, _, _, _, _, _)
handleResourceDeletions(known, queue, accessibleNames, sets, order, i) ==
    IF i > Len(order) THEN [known |-> known, queue |-> queue, timedOut |-> FALSE]
    ELSE LET n == order[i]
         IN IF n \in DOMAIN known /\ n \notin accessibleNames
            THEN IF HasRoom(queue)
                 THEN handleResourceDeletions(
                          Remove(known, n),
                          Append(queue, Event("DELETED", n, ConvertResource(sets, n))),
                          accessibleNames, sets, order, i + 1)
                 ELSE [known |-> Remove(known, n), queue |-> queue, timedOut |-> TRUE]
            ELSE handleResourceDeletions(known, queue, accessibleNames, sets, order, i + 1)

\* Mutant: the stored resource version is not looked at.
AlreadyProcessed_Never(known, sets, n) == FALSE

\* The name is known with the resource version the object has now.
AlreadyProcessed(known, sets, n) == n \in DOMAIN known /\ known[n] = sets[n].rv

\* accessibleNames.List() is sorted: the names are visited in increasing order.
RECURSIVE handleResourceUpdates(_, _, _, _, _)
handleResourceUpdates(known, queue, accessibleNames, sets, i) ==
    IF i > Len(SortedNames)
    THEN [known |-> known, queue |-> queue, timedOut |-> FALSE]
    ELSE LET n == SortedNames[i]
         IN IF n \notin accessibleNames \/ ~GetFound(sets, n)
            THEN handleResourceUpdates(known, queue, accessibleNames, sets, i + 1)
            ELSE IF AlreadyProcessed(known, sets, n)
            THEN handleResourceUpdates(known, queue, accessibleNames, sets, i + 1)
            ELSE LET eventType == IF n \in DOMAIN known THEN "MODIFIED" ELSE "ADDED"
                     stored == Put(known, n, sets[n].rv)
                 IN IF HasRoom(queue)
                    THEN handleResourceUpdates(
                             stored, Append(queue, Event(eventType, n, sets[n].rv)),
                             accessibleNames, sets, i + 1)
                    ELSE [known |-> stored, queue |-> queue, timedOut |-> TRUE]

\* Whether watch w is in c.watchers.
Registered(w) == \E i \in 1..Len(watchers) : watchers[i] = w

\* Mutant: every notification is taken for one of the subject.
HasAccess_Always(w, users, groups) == TRUE

HasAccess(w, users, groups) == UserOf(w) \in users \/ GroupsOf(w) \cap groups # {}

GroupMembershipChanged(w, known, queue, names, users, groups, sets, order) ==
    IF ~HasAccess(w, users, groups)
    THEN [known |-> known, queue |-> queue, timedOut |-> FALSE]
    ELSE LET d == handleResourceDeletions(known, queue, names, sets, order, 1)
         IN IF d.timedOut THEN d
            ELSE handleResourceUpdates(d.known, d.queue, names, sets, 1)

\* The three sets notifyWatchers builds from the permission cache.
NotifiedNames(idx) ==
    UNION ({ idx.users[u] : u \in DOMAIN idx.users }
           \cup { idx.groups[g] : g \in DOMAIN idx.groups })
NotifiedUsers(idx) == DOMAIN idx.users
NotifiedGroups(idx) == DOMAIN idx.groups

\* The loop of notifyWatchers from position i on.  A watch whose send times
\* out calls RemoveWatcher, which asks for the write side of watcherLock while
\* this goroutine holds its read side: the goroutine is blocked for good
\* and the later watches are not notified.
RECURSIVE notifyFrom(_, _, _, _, _, _)
notifyFrom(i, st, idx, sets, thread, order) ==
    IF i > Len(watchers) THEN st
    ELSE LET w == watchers[i]
             r == GroupMembershipChanged(w, st.known[w], st.queue[w],
                      NotifiedNames(idx), NotifiedUsers(idx), NotifiedGroups(idx),
                      sets, order)
             st2 == [known |-> [st.known EXCEPT ![w] = r.known],
                     queue |-> [st.queue EXCEPT ![w] = r.queue],
                     hung |-> IF r.timedOut THEN {thread} ELSE {},
                     timedOut |-> IF r.timedOut THEN st.timedOut \cup {w}
                                  ELSE st.timedOut]
         IN IF r.timedOut THEN st2
            ELSE notifyFrom(i + 1, st2, idx, sets, thread, order)

\* notifyWatchers on goroutine `thread`.  Once a goroutine waits for the write
\* side of watcherLock, RLock blocks every later caller.
notifyWatchers(idx, sets, thread, order) ==
    IF hung # {}
    THEN [known |-> knownResources, queue |-> internalEvents,
          hung |-> hung \cup {thread}, timedOut |-> timedOut]
    ELSE notifyFrom(1, [known |-> knownResources, queue |-> internalEvents,
                        hung |-> {}, timedOut |-> timedOut],
                    idx, sets, thread, order)

\* The visiting orders of Range over the known names.
Orders ==
    { o \in [1..Len(SortedNames) -> Names] :
        \A i, j \in 1..Len(SortedNames) : i # j => o[i] # o[j] }

NoList ==
    [user |-> "", groups |-> {}, selector |-> "", getFails |-> {},
     err |-> FALSE, items |-> {}]

\* Nobody holds or wants the lock of the permission cache.  The handlers below
\* are steps that take the write lock, work and release it in one piece; the
\* steps of the lock-level rebuild further down take it apart.
LockIdle ==
    /\ mu = [writer |-> FALSE, readers |-> 0]
    /\ pc = "idle"
    /\ pending = {}
    /\ rpc = "idle"
    /\ acc = {}
    /\ committed = [users |-> userPermissions, groups |-> groupPermissions]
    /\ seen = {}

\* No watch has been started, stopped or timed out.  The specifications of the
\* cache register a watch with its event loop running (Watch below) and leave
\* these variables alone; the specification of the watch's life further down
\* takes Start, run and Stop apart.
RunIdle ==
    /\ timedOut = {}
    /\ created = {}
    /\ started = [w \in WatcherIds |-> FALSE]
    /\ ctxDone = [w \in WatcherIds |-> FALSE]
    /\ errors = [w \in WatcherIds |-> 0]
    /\ initialResources = [w \in WatcherIds |-> <<>>]
    /\ runs = [w \in WatcherIds |-> <<>>]
    /\ stream = [w \in WatcherIds |-> <<>>]
    /\ closes = [w \in WatcherIds |-> 0]
    /\ stopCalls = [w \in WatcherIds |-> 0]

Threads == {"role", "binding"}

\* Where an informer goroutine is: the notification it hands out (its number
\* and the three sets), the known names its Range has visited, the index of
\* the name its updates are at and the type of the event it is about to send.
Idle ==
    [pc |-> "idle", seq |-> 0, names |-> {}, users |-> {}, groups |-> {},
     visited |-> {}, i |-> 0, type |-> ""]

\* No handler is under way.  The specifications above run a handler in one
\* step; the specification of the concurrent handlers takes it apart.
NotifierIdle ==
    /\ notifier = [t \in Threads |-> Idle]
    /\ notifications = 0
    /\ sent = [w \in WatcherIds |-> <<>>]

\* ------------------------------------------------------------------ mapper
\* ClusterSetResourceMapper and, in package helpers, ClusterSetMapper: a map
\* from cluster-set name to a sets.Set of member names.  A sets.Set is a Go
\* map, a reference: the model keeps the sets in a heap and the map of the
\* mapper holds addresses.
Members == {"m1", "m2"}
Addrs == 1..MaxSets

NoCall == [op |-> "", member |-> "", set |-> 0]
NotReturned == [is |-> FALSE, value |-> {}]
NoMerge == [m |-> Empty, other |-> Empty, ab |-> Empty, ba |-> Empty,
            done |-> FALSE]

\* The addresses somebody can still reach: the values of the map and the set
\* the caller holds.
Live(m, hd) == {m[n] : n \in DOMAIN m} \cup ({hd} \ {0})

\* What the garbage collector leaves: a set nobody reaches is gone.
Collect(m, hd, h) == [a \in Addrs |-> IF a \in Live(m, hd) THEN h[a] ELSE {}]

\* sets.New and Clone: a set object that did not exist.
Fresh(m, hd) == CHOOSE a \in Addrs : a \notin Live(m, hd)

CanAllocate == Live(setToResources, held) # Addrs

\* The mapping as values: set name -> members.
Mapping(m, h) == [n \in DOMAIN m |-> h[m[n]]]

\* The cache runs: its context is not cancelled.
CacheRunning == stopped = FALSE

\* Two mappers of one resource type and the goroutines calling them.
MapperIds == {"a", "b"}

Callers == {"t1", "t2"}

NoProc ==
    [op |-> "", recv |-> "", src |-> "", pc |-> "idle", snap |-> Empty,
     visited |-> {}, before |-> Empty, after |-> Empty, member |-> "",
     res |-> 0, out |-> Empty]

\* A mutex nobody holds; a held one names the caller that has it locked.
Unlocked == "free"

\* No mapper is being copied or merged.
CopyIdle ==
    /\ mappers = [m \in MapperIds |-> Empty]
    /\ mutex = [m \in MapperIds |-> Unlocked]
    /\ procs = [t \in Callers |-> NoProc]

\* The upstream sources of the cache.
Sources == {"roles", "bindings", "sets"}

\* A cache whose Start has returned, every informer synced.
Booted == [phase |-> "started", synced |-> Sources, listed |-> {}]

BootIdle == boot = Booted

\* NewClusterSetResourceMapper, NewClusterSetMapper: an empty map; the caller
\* holds no set.
MapperIdle ==
    /\ legacy = FALSE
    /\ heap = [a \in Addrs |-> {}]
    /\ setToResources = Empty
    /\ held = 0
    /\ returned = NotReturned
    /\ call = NoCall
    /\ merged = NoMerge

\* ------------------------------------------------------------ initial state
\* The cache constructed and started over empty upstream stores: the index is
\* empty and no watch is registered.
Init ==
    /\ clusterRoles = Empty
    /\ clusterRoleBindings = Empty
    /\ clusterSets = Empty
    /\ userPermissions = Empty
    /\ groupPermissions = Empty
    /\ watchers = <<>>
    /\ knownResources = [w \in WatcherIds |-> Empty]
    /\ internalEvents = [w \in WatcherIds |-> <<>>]
    /\ hung = {}
    /\ listResult = NoList
    /\ lastOp = "init"
    /\ lastErr = FALSE
    /\ LockIdle
    /\ RunIdle
    /\ NotifierIdle
    /\ CacheRunning
    /\ CopyIdle
    /\ BootIdle
    /\ MapperIdle
    /\ ExtractIdle

\* ------------------------------------------------- role and binding handlers
\* The informer has stored the change; its handler, run on the informer's
\* goroutine `thread`, leaves the index idx2 and then calls notifyWatchers.  A
\* goroutine that is blocked for good runs no handler: only the store changes.
Handled(thread, roles2, bindings2, idx2, err, op, order) ==
    /\ clusterRoles' = roles2
    /\ clusterRoleBindings' = bindings2
    /\ UNCHANGED <<clusterSets, watchers, lockVars, runVars, orderVars, stopped,
                   mapperVars, extractVars, copyVars, bootVars>>
    /\ listResult' = NoList
    /\ IF thread \in hung
       THEN /\ UNCHANGED <<userPermissions, groupPermissions, knownResources,
                           internalEvents, hung, timedOut>>
            /\ lastOp' = "stalled"
            /\ lastErr' = FALSE
       ELSE LET r == notifyWatchers(idx2, clusterSets, thread, order)
            IN /\ userPermissions' = idx2.users
               /\ groupPermissions' = idx2.groups
               /\ knownResources' = r.known
               /\ internalEvents' = r.queue
               /\ hung' = r.hung
               /\ timedOut' = r.timedOut
               /\ lastOp' = op
               /\ lastErr' = err

RoleChanged(roles2, f, order) ==
    /\ f \in Failures(roles2, clusterRoleBindings)
    /\ Handled("role", roles2, clusterRoleBindings,
               rebuildPermissionCache(roles2, clusterRoleBindings, clusterSets,
                                      f.bindings, f.sets),
               RebuildFailed(roles2, clusterRoleBindings, f.bindings, f.sets),
               "rebuild", order)

onClusterRoleAdd(r, def, f, order) ==
    /\ r \notin DOMAIN clusterRoles
    /\ RoleChanged(Put(clusterRoles, r, def), f, order)

onClusterRoleUpdate(r, def, f, order) ==
    /\ r \in DOMAIN clusterRoles
    /\ clusterRoles[r] # def
    /\ RoleChanged(Put(clusterRoles, r, def), f, order)

onClusterRoleDelete(r, f, order) ==
    /\ r \in DOMAIN clusterRoles
    /\ RoleChanged(Remove(clusterRoles, r), f, order)

BindingChanged(bindings2, f, order) ==
    /\ f \in Failures(clusterRoles, bindings2)
    /\ Handled("binding", clusterRoles, bindings2,
               rebuildPermissionCache(clusterRoles, bindings2, clusterSets,
                                      f.bindings, f.sets),
               RebuildFailed(clusterRoles, bindings2, f.bindings, f.sets),
               "rebuild", order)

\* Mutant: the new binding is processed into an empty index.
onClusterRoleBindingAdd_FromEmpty(b, def, listFails, order) ==
    /\ b \notin DOMAIN clusterRoleBindings
    /\ LET bindings2 == Put(clusterRoleBindings, b, def)
       IN /\ listFails => IsGlobal(b, clusterRoles, bindings2)
          /\ Handled("binding", clusterRoles, bindings2,
                     processClusterRoleBinding(EmptyIndex, def, clusterRoles,
                                               clusterSets, listFails),
                     listFails, "add", order)

\* The one incremental path: only the new binding is processed, into the
\* index as it stands.
onClusterRoleBindingAdd(b, def, listFails, order) ==
    /\ b \notin DOMAIN clusterRoleBindings
    /\ LET bindings2 == Put(clusterRoleBindings, b, def)
       IN /\ listFails => IsGlobal(b, clusterRoles, bindings2)
          /\ Handled("binding", clusterRoles, bindings2,
                     processClusterRoleBinding(CurrentIndex, def, clusterRoles,
                                               clusterSets, listFails),
                     listFails, "add", order)

\* The role reference of a binding cannot be changed: an update changes the
\* subjects.
onClusterRoleBindingUpdate(b, subjects, f, order) ==
    /\ b \in DOMAIN clusterRoleBindings
    /\ clusterRoleBindings[b].subjects # subjects
    /\ BindingChanged(Put(clusterRoleBindings, b,
                          [clusterRoleBindings[b] EXCEPT !.subjects = subjects]),
                      f, order)

onClusterRoleBindingDelete(b, f, order) ==
    /\ b \in DOMAIN clusterRoleBindings
    /\ BindingChanged(Remove(clusterRoleBindings, b), f, order)

\* ------------------------------------------------------------ resource store
\* No handler is registered for the cluster set informer: a change of the
\* resource store reaches neither the index nor the watches.
StoreChanged(sets2) ==
    /\ clusterSets' = sets2
    /\ UNCHANGED <<clusterRoles, clusterRoleBindings, userPermissions,
                   groupPermissions, watchers, knownResources, internalEvents, hung,
                   lockVars, timedOut, runVars, orderVars, stopped,
                   mapperVars, extractVars, copyVars, bootVars>>
    /\ listResult' = NoList
    /\ lastOp' = "store"
    /\ lastErr' = FALSE

\* Resource versions are opaque: the code only compares them for equality.
ResourceAdd(n, rv, label) ==
    /\ n \notin DOMAIN clusterSets
    /\ StoreChanged(Put(clusterSets, n, [rv |-> rv, label |-> label]))

ResourceUpdate(n, rv) ==
    /\ n \in DOMAIN clusterSets
    /\ clusterSets[n].rv # rv
    /\ StoreChanged([clusterSets EXCEPT ![n].rv = rv])

ResourceDelete(n) ==
    /\ n \in DOMAIN clusterSets
    /\ StoreChanged(Remove(clusterSets, n))

\* ----------------------------------------------------------------- List
ListCall(userName, userGroups, selector, getFails) ==
    /\ listResult' =
           [user |-> userName, groups |-> userGroups, selector |-> selector,
            getFails |-> getFails]
           @@ List(userPermissions, groupPermissions, clusterSets,
                   userName, userGroups, selector, getFails)
    /\ lastOp' = "list"
    /\ lastErr' = FALSE
    /\ UNCHANGED <<clusterRoles, clusterRoleBindings, clusterSets,
                   userPermissions, groupPermissions, watchers, knownResources,
                   internalEvents, hung, lockVars, timedOut, runVars, orderVars, stopped,
                   mapperVars, extractVars, copyVars, bootVars>>

\* ------------------------------------------------------------ watch clients
\* NewModernCacheWatcher, AddWatcher and Start: known-resources is what
\* ListObjects returns for the subject.
Watch(w) ==
    /\ \A i \in 1..Len(watchers) : watchers[i] # w
    /\ LET l == ListObjects(userPermissions, groupPermissions, clusterSets,
                            UserOf(w), GroupsOf(w))
           names == { o.name : o \in l.items }
       IN knownResources' =
              [knownResources EXCEPT ![w] = [n \in names |-> clusterSets[n].rv]]
    /\ watchers' = Append(watchers, w)
    /\ listResult' = NoList
    /\ lastOp' = "watch"
    /\ lastErr' = FALSE
    /\ UNCHANGED <<clusterRoles, clusterRoleBindings, clusterSets,
                   userPermissions, groupPermissions, internalEvents, hung,
                   lockVars, timedOut, runVars, orderVars, stopped,
                   mapperVars, extractVars, copyVars, bootVars>>

\* The event loop takes the next internal event and the client receives it.
Deliver(w) ==
    /\ \E i \in 1..Len(watchers) : watchers[i] = w
    /\ internalEvents[w] # <<>>
    /\ internalEvents' = [internalEvents EXCEPT ![w] = Tail(@)]
    /\ listResult' = NoList
    /\ lastOp' = "deliver"
    /\ lastErr' = FALSE
    /\ UNCHANGED <<clusterRoles, clusterRoleBindings, clusterSets,
                   userPermissions, groupPermissions, watchers, knownResources, hung,
                   lockVars, timedOut, runVars, orderVars, stopped,
                   mapperVars, extractVars, copyVars, bootVars>>

\* ------------------------------------------------- the lock-level rebuild
\* sync.RWMutex: RLock waits while a writer holds the lock, Lock waits while
\* anybody holds it.
\* Mutant: RLock does not wait for the writer.
CanRLock_Unguarded(m) == TRUE

CanRLock(m) == ~m.writer

CanLock(m) == ~m.writer /\ m.readers = 0

\* No watch is registered in these runs: notifyWatchers has nobody to notify.
NoWatchStep ==
    /\ watchers = <<>>
    /\ UNCHANGED <<clusterSets, watchers, knownResources, internalEvents, hung,
                   listResult, timedOut, runVars, orderVars, stopped,
                   mapperVars, extractVars, copyVars, bootVars>>

\* The role informer stores an added or updated role and calls the handler.
RoleStored(r, def) ==
    /\ pc = "idle"
    /\ IF r \in DOMAIN clusterRoles THEN clusterRoles[r] # def ELSE TRUE
    /\ clusterRoles' = Put(clusterRoles, r, def)
    /\ pc' = "lock"
    /\ lastOp' = "event"
    /\ lastErr' = FALSE
    /\ UNCHANGED <<clusterRoleBindings, userPermissions, groupPermissions,
                   mu, pending, rpc, acc, committed, seen>>
    /\ NoWatchStep

\* The role informer drops a deleted role and calls the handler.
RoleRemoved(r) ==
    /\ pc = "idle"
    /\ r \in DOMAIN clusterRoles
    /\ clusterRoles' = Remove(clusterRoles, r)
    /\ pc' = "lock"
    /\ lastOp' = "event"
    /\ lastErr' = FALSE
    /\ UNCHANGED <<clusterRoleBindings, userPermissions, groupPermissions,
                   mu, pending, rpc, acc, committed, seen>>
    /\ NoWatchStep

\* c.permissionCache.mu.Lock()
RebuildLock ==
    /\ pc = "lock"
    /\ CanLock(mu)
    /\ mu' = [mu EXCEPT !.writer = TRUE]
    /\ pc' = "clear"
    /\ lastOp' = "step"
    /\ UNCHANGED <<clusterRoles, clusterRoleBindings, userPermissions,
                   groupPermissions, lastErr, pending, rpc, acc, committed, seen>>
    /\ NoWatchStep

\* The two maps are replaced by empty ones.
RebuildClear ==
    /\ pc = "clear"
    /\ userPermissions' = Empty
    /\ groupPermissions' = Empty
    /\ pc' = "list"
    /\ lastOp' = "step"
    /\ UNCHANGED <<clusterRoles, clusterRoleBindings, lastErr, mu, pending, rpc, acc,
                   committed, seen>>
    /\ NoWatchStep

\* clusterRoleBindingLister.List: on an error the rebuild returns.
RebuildListBindings(fail) ==
    /\ pc = "list"
    /\ pending' = IF fail THEN {} ELSE DOMAIN clusterRoleBindings
    /\ pc' = IF pending' = {} THEN "unlock" ELSE "process"
    /\ lastErr' = fail
    /\ lastOp' = "step"
    /\ UNCHANGED <<clusterRoles, clusterRoleBindings, userPermissions,
                   groupPermissions, mu, rpc, acc, committed, seen>>
    /\ NoWatchStep

\* One turn of the loop over the listed bindings, which come in any order.
RebuildProcess(b, listFails) ==
    /\ pc = "process"
    /\ b \in pending
    /\ listFails => IsGlobal(b, clusterRoles, clusterRoleBindings)
    /\ LET idx == processClusterRoleBinding(CurrentIndex, clusterRoleBindings[b],
                                            clusterRoles, clusterSets, listFails)
       IN /\ userPermissions' = idx.users
          /\ groupPermissions' = idx.groups
    /\ pending' = pending \ {b}
    /\ pc' = IF pending' = {} THEN "unlock" ELSE "process"
    /\ lastErr' = (lastErr \/ listFails)
    /\ lastOp' = "step"
    /\ UNCHANGED <<clusterRoles, clusterRoleBindings, mu, rpc, acc, committed, seen>>
    /\ NoWatchStep

\* The deferred c.permissionCache.mu.Unlock(); the handler then returns.
RebuildUnlock ==
    /\ pc = "unlock"
    /\ mu' = [mu EXCEPT !.writer = FALSE]
    /\ pc' = "idle"
    /\ committed' = CurrentIndex
    /\ seen' = IF rpc = "idle" THEN seen ELSE seen \cup {CurrentIndex}
    /\ lastOp' = "rebuild"
    /\ UNCHANGED <<clusterRoles, clusterRoleBindings, userPermissions,
                   groupPermissions, lastErr, pending, rpc, acc>>
    /\ NoWatchStep

\* The caller of the lock-level lookups.
ReadUser == "alice"
ReadGroups == {"ops"}

\* getAccessibleResourceNames: c.permissionCache.mu.RLock()
LookupRLock ==
    /\ rpc = "idle"
    /\ CanRLock(mu)
    /\ mu' = [mu EXCEPT !.readers = @ + 1]
    /\ rpc' = "user"
    /\ acc' = {}
    /\ seen' = {committed}
    /\ lastOp' = "step"
    /\ UNCHANGED <<clusterRoles, clusterRoleBindings, userPermissions,
                   groupPermissions, lastErr, pc, pending, committed>>
    /\ NoWatchStep

\* The set of the caller's user is united into accessibleNames.
LookupUser ==
    /\ rpc = "user"
    /\ acc' = acc \cup (IF ReadUser \in DOMAIN userPermissions
                        THEN userPermissions[ReadUser] ELSE {})
    /\ rpc' = "groups"
    /\ lastOp' = "step"
    /\ UNCHANGED <<clusterRoles, clusterRoleBindings, userPermissions,
                   groupPermissions, lastErr, mu, pc, pending, committed, seen>>
    /\ NoWatchStep

\* The sets of the caller's groups are united into accessibleNames.
LookupGroups ==
    /\ rpc = "groups"
    /\ acc' = acc \cup UNION { groupPermissions[g] :
                                 g \in ReadGroups \cap DOMAIN groupPermissions }
    /\ rpc' = "unlock"
    /\ lastOp' = "step"
    /\ UNCHANGED <<clusterRoles, clusterRoleBindings, userPermissions,
                   groupPermissions, lastErr, mu, pc, pending, committed, seen>>
    /\ NoWatchStep

\* The deferred RUnlock; accessibleNames is returned.
LookupRUnlock ==
    /\ rpc = "unlock"
    /\ mu' = [mu EXCEPT !.readers = @ - 1]
    /\ rpc' = "idle"
    /\ lastOp' = "lookup"
    /\ UNCHANGED <<clusterRoles, clusterRoleBindings, userPermissions,
                   groupPermissions, lastErr, pc, pending, acc, committed, seen>>
    /\ NoWatchStep

\* ------------------------------------------------------------ specifications
\* The cache alone: every handler, with upstream read failures.
Next ==
    \/ \E r \in RoleNames, def \in RoleDefs, f \in FailureInputs :
          \/ onClusterRoleAdd(r, def, f, SortedNames)
          \/ onClusterRoleUpdate(r, def, f, SortedNames)
    \/ \E r \in RoleNames, f \in FailureInputs : onClusterRoleDelete(r, f, SortedNames)
    \/ \E b \in BindingNames, sl \in SubjectLists, lf \in BOOLEAN :
          onClusterRoleBindingAdd(b, [roleRef |-> RoleRefOf(b), subjects |-> sl],
                                  lf, SortedNames)
    \/ \E b \in BindingNames, sl \in SubjectLists, f \in FailureInputs :
          onClusterRoleBindingUpdate(b, sl, f, SortedNames)
    \/ \E b \in BindingNames, f \in FailureInputs :
          onClusterRoleBindingDelete(b, f, SortedNames)
    \/ \E n \in Names : ResourceAdd(n, 1, "x") \/ ResourceDelete(n)
    \/ \E n \in Names, rv \in RVs : ResourceUpdate(n, rv)

Spec == Init /\ [][Next]_vars

\* List over the states the cache reaches: the stores hold any roles,
\* bindings and cluster sets of the catalogue, the index is the one a rebuild
\* leaves, and the resource store goes on changing under it.
PartialFns(D, R) == UNION { [S -> R] : S \in SUBSET D }

BindingsOver(S) ==
    { f \in PartialFns(BindingNames, [roleRef : RoleNames, subjects : S]) :
        \A b \in DOMAIN f : f[b].roleRef = RoleRefOf(b) }

InitList ==
    /\ clusterRoles \in PartialFns(RoleNames, RoleDefs)
    /\ clusterRoleBindings \in BindingsOver(SubjectLists)
    /\ clusterSets \in PartialFns(Names, [rv : {1}, label : Labels])
    /\ LET idx == rebuildPermissionCache(clusterRoles, clusterRoleBindings,
                                         clusterSets, FALSE, {})
       IN userPermissions = idx.users /\ groupPermissions = idx.groups
    /\ watchers = <<>>
    /\ knownResources = [w \in WatcherIds |-> Empty]
    /\ internalEvents = [w \in WatcherIds |-> <<>>]
    /\ hung = {}
    /\ listResult = NoList
    /\ lastOp = "init"
    /\ lastErr = FALSE
    /\ LockIdle
    /\ RunIdle
    /\ NotifierIdle
    /\ CacheRunning
    /\ CopyIdle
    /\ BootIdle
    /\ MapperIdle
    /\ ExtractIdle

ListCallers == { <<"alice", {"ops"}>>, <<"alice", {}>>, <<"bob", {}>> }

NextList ==
    \/ \E c \in ListCallers, sel \in Selectors, gf \in {{}} \cup { {n} : n \in Names } :
          ListCall(c[1], c[2], sel, gf)
    \/ \E n \in Names, l \in Labels : ResourceAdd(n, 1, l)
    \/ \E n \in Names : ResourceDelete(n)

SpecList == InitList /\ [][NextList]_vars

\* The cache with one watch client, in runs where no upstream read fails, the
\* bindings name single users and the client drains its stream before a send
\* can time out.
UserSubjectLists == { <<User(u)>> : u \in Users }

NextNotify ==
    /\ \/ \E r \in RoleNames, def \in RoleDefs :
             \/ onClusterRoleAdd(r, def, NoFailure, SortedNames)
             \/ onClusterRoleUpdate(r, def, NoFailure, SortedNames)
       \/ \E r \in RoleNames : onClusterRoleDelete(r, NoFailure, SortedNames)
       \/ \E b \in BindingNames, sl \in UserSubjectLists :
             onClusterRoleBindingAdd(b, [roleRef |-> RoleRefOf(b), subjects |-> sl],
                                     FALSE, SortedNames)
       \/ \E b \in BindingNames, sl \in UserSubjectLists :
             onClusterRoleBindingUpdate(b, sl, NoFailure, SortedNames)
       \/ \E b \in BindingNames : onClusterRoleBindingDelete(b, NoFailure, SortedNames)
       \/ \E n \in Names : ResourceAdd(n, 1, "x") \/ ResourceDelete(n)
       \/ Watch("w1") \/ Deliver("w1")
    /\ hung' = {}

SpecNotify == Init /\ [][NextNotify]_vars

\* The cache with two watch clients, so that a send can time out: the client
\* of w1 does not read its stream and the client of w2 reads when it pleases.
\* Both watches are registered before the first binding exists; both cluster
\* sets are in the store, no upstream read fails and only role r1 is edited.
InitFanout ==
    /\ clusterRoles = [r \in RoleNames |->
                          IF r = "r1" THEN <<ViewRule({1})>>
                          ELSE <<OtherRule, ViewRule({2})>>]
    /\ clusterRoleBindings = Empty
    /\ clusterSets = [n \in Names |-> [rv |-> 1, label |-> "x"]]
    /\ userPermissions = Empty
    /\ groupPermissions = Empty
    /\ watchers \in { <<"w1", "w2">>, <<"w2", "w1">> }
    /\ knownResources = [w \in WatcherIds |-> Empty]
    /\ internalEvents = [w \in WatcherIds |-> <<>>]
    /\ hung = {}
    /\ listResult = NoList
    /\ lastOp = "init"
    /\ lastErr = FALSE
    /\ LockIdle
    /\ RunIdle
    /\ NotifierIdle
    /\ CacheRunning
    /\ CopyIdle
    /\ BootIdle
    /\ MapperIdle
    /\ ExtractIdle

NextFanout ==
    \/ \E def \in RoleDefs : onClusterRoleUpdate("r1", def, NoFailure, SortedNames)
    \/ \E b \in BindingNames, sl \in UserSubjectLists :
          onClusterRoleBindingAdd(b, [roleRef |-> RoleRefOf(b), subjects |-> sl],
                                  FALSE, SortedNames)
    \/ \E b \in BindingNames, sl \in UserSubjectLists :
          onClusterRoleBindingUpdate(b, sl, NoFailure, SortedNames)
    \/ \E b \in BindingNames : onClusterRoleBindingDelete(b, NoFailure, SortedNames)
    \/ Deliver("w2")

SpecFanout == InitFanout /\ [][NextFanout]_vars

\* ------------------------------------------------------- the life of a watch
\* Start, run and Stop of ModernCacheWatcher taken apart, over a cache whose
\* RemoveWatcher returns to its caller (mockWatchableCache): its objects are
\* clusterSets, ListObjects returns all of them and the owner of the watch
\* calls GroupMembershipChanged on the watches in `watchers`.
ErrorEvent == Event("ERROR", 0, 0)
NoEvent == Event("NONE", 0, 0)

\* mockWatchableCache.ListObjects: every object, in the order the map yields.
RECURSIVE ListedIn(_, _, _)
ListedIn(sets, order, i) ==
    IF i > Len(order) THEN <<>>
    ELSE IF order[i] \in DOMAIN sets
         THEN <<[name |-> order[i], rv |-> sets[order[i]].rv]>>
              \o ListedIn(sets, order, i + 1)
         ELSE ListedIn(sets, order, i + 1)

\* Mutant: run enters its event loop without emitting the initial resources.
AfterInitial_Skipped(w, i) == "loop"

\* Where run goes when emitInitialResources has dealt with the resources
\* before the i-th: the next turn of its loop, or the event loop.
AfterInitial(w, i) ==
    IF i > Len(initialResources[w]) THEN "loop" ELSE "initial"

Goroutine(p, i, ev, next) == [pc |-> p, i |-> i, ev |-> ev, next |-> next]

WithoutWatcher(ws, w) == SelectSeq(ws, LAMBDA x : x # w)

\* What the steps of the watch leave alone in the cache.
WatchStep(op) ==
    /\ lastOp' = op
    /\ UNCHANGED <<clusterRoles, clusterRoleBindings, clusterSets, userPermissions,
                   groupPermissions, hung, listResult, lastErr, lockVars,
                   orderVars, stopped,
                   mapperVars, extractVars, copyVars, bootVars>>

\* NewModernCacheWatcher and initializeResources; the owner registers the watch.
NewModernCacheWatcher(w, includeAllExistingResources, order) ==
    /\ w \notin created
    /\ created' = created \cup {w}
    /\ LET objs == ListedIn(clusterSets, order, 1)
       IN /\ knownResources' =
                [knownResources EXCEPT
                    ![w] = [n \in DOMAIN clusterSets |-> clusterSets[n].rv]]
          /\ initialResources' =
                [initialResources EXCEPT
                    ![w] = IF includeAllExistingResources THEN objs ELSE <<>>]
    /\ watchers' = Append(watchers, w)
    /\ WatchStep("watch")
    /\ UNCHANGED <<internalEvents, timedOut, started, ctxDone, errors, runs,
                   stream, closes, stopCalls>>

\* Start: under w.mu, a started watch returns; otherwise started is set and run
\* is spawned.
Start(w) ==
    /\ w \in created
    /\ IF started[w]
       THEN UNCHANGED <<started, runs>>
       ELSE /\ Len(runs[w]) < MaxRuns
            /\ started' = [started EXCEPT ![w] = TRUE]
            /\ runs' = [runs EXCEPT
                           ![w] = Append(@, Goroutine(AfterInitial(w, 1), 1,
                                                      NoEvent, "loop"))]
    /\ WatchStep("watch")
    /\ UNCHANGED <<watchers, knownResources, internalEvents, timedOut, created,
                   ctxDone, errors, initialResources, stream, closes, stopCalls>>

\* Stop: under w.mu, a watch that is not started returns; otherwise the
\* context is cancelled and started is reset.
Stop(w) ==
    /\ w \in created
    /\ stopCalls[w] < MaxStops
    /\ stopCalls' = [stopCalls EXCEPT ![w] = @ + 1]
    /\ IF ~started[w]
       THEN UNCHANGED <<started, ctxDone>>
       ELSE /\ ctxDone' = [ctxDone EXCEPT ![w] = TRUE]
            /\ started' = [started EXCEPT ![w] = FALSE]
    /\ WatchStep("stop")
    /\ UNCHANGED <<watchers, knownResources, internalEvents, timedOut, created,
                   errors, initialResources, runs, stream, closes>>

\* GroupMembershipChanged when handleEventTimeout returns: after a timeout in
\* the deletions the updates are still handled.
ReturningGroupMembershipChanged(w, known, queue, names, users, groups, sets, order) ==
    IF ~HasAccess(w, users, groups)
    THEN [known |-> known, queue |-> queue, timedOut |-> FALSE]
    ELSE LET d == handleResourceDeletions(known, queue, names, sets, order, 1)
             u == handleResourceUpdates(d.known, d.queue, names, sets, 1)
         IN [known |-> u.known, queue |-> u.queue,
             timedOut |-> d.timedOut \/ u.timedOut]

\* The cache notifies a registered watch of its subject.  handleEventTimeout
\* removes the watch and leaves an error if w.errors has room.  Notifications
\* of a cancelled watch, whose sends race with ctx.Done, are left out.
Notify(w, names, order) ==
    /\ Registered(w)
    /\ ~ctxDone[w]
    /\ LET r == ReturningGroupMembershipChanged(
                    w, knownResources[w], internalEvents[w], names,
                    {UserOf(w)}, {}, clusterSets, order)
       IN /\ knownResources' = [knownResources EXCEPT ![w] = r.known]
          /\ internalEvents' = [internalEvents EXCEPT ![w] = r.queue]
          /\ IF r.timedOut
             THEN /\ watchers' = WithoutWatcher(watchers, w)
                  /\ errors' = [errors EXCEPT ![w] = 1]
                  /\ timedOut' = timedOut \cup {w}
             ELSE UNCHANGED <<watchers, errors, timedOut>>
    /\ WatchStep("watch")
    /\ UNCHANGED <<created, started, ctxDone, initialResources, runs, stream,
                   closes, stopCalls>>

\* A step of the g-th run goroutine of watch w.
RunStep(w, g, r2) ==
    /\ runs' = [runs EXCEPT ![w][g] = r2]
    /\ WatchStep("watch")
    /\ UNCHANGED <<knownResources, timedOut, created, started, ctxDone,
                   initialResources, stopCalls>>

\* emitInitialResources, one turn of its loop: the select takes a pending
\* error (and emitInitialResources returns to run, which goes on to its event
\* loop), or sees the cancelled context and returns, or falls through to emit
\* ADDED for the resource.
emitInitialResources(w, g) ==
    /\ g \in DOMAIN runs[w]
    /\ runs[w][g].pc = "initial"
    /\ LET i == runs[w][g].i
           res == initialResources[w][i]
       IN \/ /\ errors[w] > 0
             /\ errors' = [errors EXCEPT ![w] = 0]
             /\ RunStep(w, g, Goroutine("emit", 0, ErrorEvent, "loop"))
          \/ /\ ctxDone[w]
             /\ UNCHANGED errors
             /\ RunStep(w, g, Goroutine("loop", 0, NoEvent, "loop"))
          \/ /\ errors[w] = 0
             /\ ~ctxDone[w]
             /\ UNCHANGED errors
             /\ RunStep(w, g, Goroutine("emit",
                                        IF i < Len(initialResources[w])
                                        THEN i + 1 ELSE 0,
                                        Event("ADDED", res.name, res.rv),
                                        AfterInitial(w, i + 1)))
    /\ UNCHANGED <<watchers, internalEvents, stream, closes>>

\* The select of the event loop of run: an error is emitted and run returns,
\* an internal event is emitted, or the context is cancelled and run returns.
run(w, g) ==
    /\ g \in DOMAIN runs[w]
    /\ runs[w][g].pc = "loop"
    /\ \/ /\ errors[w] > 0
          /\ errors' = [errors EXCEPT ![w] = 0]
          /\ UNCHANGED internalEvents
          /\ RunStep(w, g, Goroutine("emit", 0, ErrorEvent, "exit"))
       \/ /\ internalEvents[w] # <<>>
          /\ internalEvents' = [internalEvents EXCEPT ![w] = Tail(@)]
          /\ UNCHANGED errors
          /\ RunStep(w, g, Goroutine("emit", 0, Head(internalEvents[w]), "loop"))
       \/ /\ ctxDone[w]
          /\ UNCHANGED <<errors, internalEvents>>
          /\ RunStep(w, g, Goroutine("exit", 0, NoEvent, "exit"))
    /\ UNCHANGED <<watchers, stream, closes>>

\* defaultEmit: the client receives the event from the unbuffered resultChan,
\* or the context is cancelled and the event is dropped; a send on the closed
\* channel panics, which unwinds run.
defaultEmit(w, g) ==
    /\ g \in DOMAIN runs[w]
    /\ runs[w][g].pc = "emit"
    /\ LET r == runs[w][g]
       IN \/ /\ closes[w] = 0
             /\ Len(stream[w]) < MaxStream
             /\ stream' = [stream EXCEPT ![w] = Append(@, r.ev)]
             /\ RunStep(w, g, Goroutine(r.next, r.i, NoEvent, "loop"))
          \/ /\ ctxDone[w]
             /\ UNCHANGED stream
             /\ RunStep(w, g, Goroutine(r.next, r.i, NoEvent, "loop"))
          \/ /\ closes[w] > 0
             /\ UNCHANGED stream
             /\ RunStep(w, g, Goroutine("exit", 0, NoEvent, "exit"))
    /\ UNCHANGED <<watchers, internalEvents, errors, closes>>

\* Mutant: run returns without closing resultChan.
Closed_Never(c, w) == c

\* close(w.resultChan).
Closed(c, w) == [c EXCEPT ![w] = @ + 1]

\* The deferred calls of run: RemoveWatcher, then close(resultChan).
runReturns(w, g) ==
    /\ g \in DOMAIN runs[w]
    /\ runs[w][g].pc = "exit"
    /\ watchers' = WithoutWatcher(watchers, w)
    /\ closes' = Closed(closes, w)
    /\ RunStep(w, g, Goroutine("done", 0, NoEvent, "done"))
    /\ UNCHANGED <<internalEvents, errors, stream>>

\* One watch, created with include-existing over a cache that holds both
\* objects; a notification names every object or none.
InitWatch ==
    /\ clusterRoles = Empty
    /\ clusterRoleBindings = Empty
    /\ clusterSets = [n \in Names |-> [rv |-> 1, label |-> "x"]]
    /\ userPermissions = Empty
    /\ groupPermissions = Empty
    /\ watchers = <<>>
    /\ knownResources = [w \in WatcherIds |-> Empty]
    /\ internalEvents = [w \in WatcherIds |-> <<>>]
    /\ hung = {}
    /\ listResult = NoList
    /\ lastOp = "init"
    /\ lastErr = FALSE
    /\ LockIdle
    /\ RunIdle
    /\ NotifierIdle
    /\ CacheRunning
    /\ CopyIdle
    /\ BootIdle
    /\ MapperIdle
    /\ ExtractIdle

NextWatch ==
    \/ \E order \in Orders : NewModernCacheWatcher("w1", TRUE, order)
    \/ Start("w1")
    \/ Stop("w1")
    \/ \E names \in {{}, Names} : Notify("w1", names, SortedNames)
    \/ \E g \in 1..MaxRuns :
          \/ emitInitialResources("w1", g)
          \/ run("w1", g)
          \/ defaultEmit("w1", g)
          \/ runReturns("w1", g)

SpecWatch == InitWatch /\ [][NextWatch]_vars

\* ------------------------------------------- the events of a notification
\* The cache calls GroupMembershipChanged(names, users, groups) on a registered
\* watch; handleEventTimeout removes the watch and leaves an error.
GroupMembershipChangedCall(w, names, users, groups, order) ==
    /\ Registered(w)
    /\ ~ctxDone[w]
    /\ LET r == ReturningGroupMembershipChanged(
                    w, knownResources[w], internalEvents[w], names, users, groups,
                    clusterSets, order)
       IN /\ knownResources' = [knownResources EXCEPT ![w] = r.known]
          /\ internalEvents' = [internalEvents EXCEPT ![w] = r.queue]
          /\ IF r.timedOut
             THEN /\ watchers' = WithoutWatcher(watchers, w)
                  /\ errors' = [errors EXCEPT ![w] = 1]
                  /\ timedOut' = timedOut \cup {w}
             ELSE UNCHANGED <<watchers, errors, timedOut>>
    /\ WatchStep("notify")
    /\ UNCHANGED <<created, started, ctxDone, initialResources, runs, stream,
                   closes, stopCalls>>

\* Watch w1 of alice (group ops), made over an empty store and registered.
InitEvents ==
    /\ clusterRoles = Empty
    /\ clusterRoleBindings = Empty
    /\ clusterSets = Empty
    /\ userPermissions = Empty
    /\ groupPermissions = Empty
    /\ watchers = <<"w1">>
    /\ knownResources = [w \in WatcherIds |-> Empty]
    /\ internalEvents = [w \in WatcherIds |-> <<>>]
    /\ hung = {}
    /\ listResult = NoList
    /\ lastOp = "init"
    /\ lastErr = FALSE
    /\ LockIdle
    /\ timedOut = {}
    /\ created = {"w1"}
    /\ started = [w \in WatcherIds |-> FALSE]
    /\ ctxDone = [w \in WatcherIds |-> FALSE]
    /\ errors = [w \in WatcherIds |-> 0]
    /\ initialResources = [w \in WatcherIds |-> <<>>]
    /\ runs = [w \in WatcherIds |-> <<>>]
    /\ stream = [w \in WatcherIds |-> <<>>]
    /\ closes = [w \in WatcherIds |-> 0]
    /\ stopCalls = [w \in WatcherIds |-> 0]
    /\ NotifierIdle
    /\ CacheRunning
    /\ CopyIdle
    /\ BootIdle
    /\ MapperIdle
    /\ ExtractIdle

\* The store changes, the cache notifies the watch of any names for any
\* subjects, and the internal queue is read when the reader pleases.
NextEvents ==
    \/ \E n \in Names : ResourceAdd(n, 1, "x") \/ ResourceDelete(n)
    \/ \E n \in Names, rv \in RVs : ResourceUpdate(n, rv)
    \/ \E names \in SUBSET Names, users \in SUBSET Users, groups \in SUBSET Groups,
          order \in Orders :
          GroupMembershipChangedCall("w1", names, users, groups, order)
    \/ Deliver("w1")

SpecEvents == InitEvents /\ [][NextEvents]_vars

\* ------------------------------------------- stopping a watch of the cache
\* The watch over OptimizedClusterSetCache: RemoveWatcher takes the write side
\* of watcherLock, which it gets only when no goroutine is left inside
\* notifyWatchers holding the read side.
runReturnsLocked(w, g) ==
    /\ hung = {}
    /\ runReturns(w, g)

\* The context given in the options of the watch is cancelled: w.ctx is done,
\* w.started is not touched.
ParentCancelled(w) ==
    /\ w \in created
    /\ ~ctxDone[w]
    /\ ctxDone' = [ctxDone EXCEPT ![w] = TRUE]
    /\ WatchStep("cancel")
    /\ UNCHANGED <<watchers, knownResources, internalEvents, timedOut, created,
                   started, errors, initialResources, runs, stream, closes,
                   stopCalls>>

\* OptimizedClusterSetCache.Stop: c.cancel().  The informers were started with
\* c.ctx.Done() and stop calling the handlers; the context of a watch comes
\* from context.Background() or from its options, so no watch is told.
CacheStop ==
    /\ ~stopped
    /\ stopped' = TRUE
    /\ lastOp' = "cacheStop"
    /\ UNCHANGED <<clusterRoles, clusterRoleBindings, clusterSets, userPermissions,
                   groupPermissions, watchers, knownResources, internalEvents,
                   hung, listResult, lastErr, lockVars, timedOut, runVars,
                   orderVars, mapperVars, extractVars, copyVars, bootVars>>

\* Watch w1 of alice was created without include-existing while the index was
\* empty, registered and started: its run goroutine is in the event loop.
InitStop ==
    /\ clusterRoles = [r \in RoleNames |->
                          IF r = "r1" THEN <<ViewRule({1})>>
                          ELSE <<OtherRule, ViewRule({2})>>]
    /\ clusterRoleBindings = Empty
    /\ clusterSets = [n \in Names |-> [rv |-> 1, label |-> "x"]]
    /\ userPermissions = Empty
    /\ groupPermissions = Empty
    /\ watchers = <<"w1">>
    /\ knownResources = [w \in WatcherIds |-> Empty]
    /\ internalEvents = [w \in WatcherIds |-> <<>>]
    /\ hung = {}
    /\ listResult = NoList
    /\ lastOp = "init"
    /\ lastErr = FALSE
    /\ LockIdle
    /\ timedOut = {}
    /\ created = {"w1"}
    /\ started = [w \in WatcherIds |-> w = "w1"]
    /\ ctxDone = [w \in WatcherIds |-> FALSE]
    /\ errors = [w \in WatcherIds |-> 0]
    /\ initialResources = [w \in WatcherIds |-> <<>>]
    /\ runs = [w \in WatcherIds |->
                  IF w = "w1" THEN <<Goroutine("loop", 0, NoEvent, "loop")>>
                  ELSE <<>>]
    /\ stream = [w \in WatcherIds |-> <<>>]
    /\ closes = [w \in WatcherIds |-> 0]
    /\ stopCalls = [w \in WatcherIds |-> 0]
    /\ NotifierIdle
    /\ CacheRunning
    /\ CopyIdle
    /\ BootIdle
    /\ MapperIdle
    /\ ExtractIdle

\* The bindings of alice come and go while the cache runs and the watch is not
\* cancelled (the sends of a notification to a cancelled watch race with
\* ctx.Done and are left out); the cache is stopped, the watch is stopped or
\* its parent context cancelled.
NextStop ==
    \/ /\ ~stopped
       /\ ~ctxDone["w1"]
       /\ \/ \E b \in BindingNames :
                onClusterRoleBindingAdd(
                    b, [roleRef |-> RoleRefOf(b), subjects |-> <<User("alice")>>],
                    FALSE, SortedNames)
          \/ \E b \in BindingNames, f \in FailureInputs :
                onClusterRoleBindingDelete(b, f, SortedNames)
    \/ CacheStop
    \/ Stop("w1")
    \/ ParentCancelled("w1")
    \/ run("w1", 1)
    \/ defaultEmit("w1", 1)
    \/ runReturnsLocked("w1", 1)

SpecStop == InitStop /\ [][NextStop]_vars

\* The scheduler runs the goroutine of the event loop whenever it can take a
\* step.
SpecStopFair ==
    SpecStop /\ WF_vars(run("w1", 1) \/ defaultEmit("w1", 1)
                        \/ runReturnsLocked("w1", 1))

\* ------------------------------------------------- the extractor on its own
\* The variables of the cache and of its watches.
cacheVars ==
    <<clusterRoles, clusterRoleBindings, clusterSets, userPermissions,
      groupPermissions, watchers, knownResources, internalEvents, hung, listResult,
      lastOp, lastErr, lockVars, timedOut, runVars, orderVars, stopped>>

\* No cache has been started and no watch made.
NoCache ==
    /\ clusterRoles = Empty
    /\ clusterRoleBindings = Empty
    /\ clusterSets = Empty
    /\ userPermissions = Empty
    /\ groupPermissions = Empty
    /\ watchers = <<>>
    /\ knownResources = [w \in WatcherIds |-> Empty]
    /\ internalEvents = [w \in WatcherIds |-> <<>>]
    /\ hung = {}
    /\ listResult = NoList
    /\ lastOp = "init"
    /\ lastErr = FALSE
    /\ LockIdle
    /\ RunIdle
    /\ NotifierIdle
    /\ CacheRunning
    /\ BootIdle

\* hasRequiredVerbs on each rule of the role, for both permission types.
VerbsOf(rules, permissionType) ==
    [i \in 1..Len(rules) |-> hasRequiredVerbs(rules[i], permissionType)]

\* The extractor is called on the role for the cluster sets.
Extract ==
    /\ ~extracted.done
    /\ LET ex == GetViewResourceFromClusterRole(
                     extracted.rules, TargetGroup, TargetResource)
       IN extracted' =
              [rules |-> extracted.rules, names |-> ex.names, all |-> ex.all,
               view |-> VerbsOf(extracted.rules, "view"),
               admin |-> VerbsOf(extracted.rules, "admin"),
               done |-> TRUE]
    /\ UNCHANGED <<cacheVars, mapperVars, copyVars, bootVars>>

InitExtract ==
    /\ NoCache
    /\ CopyIdle
    /\ MapperIdle
    /\ \E role \in ExtractRoles : extracted = [NoExtract EXCEPT !.rules = role]

NextExtract == Extract

SpecExtract == InitExtract /\ [][NextExtract]_vars

\* ------------------------------------------------------ mapper operations
\* Every operation takes the mutex of the mapper for its whole body (the
\* writers Lock, the readers RLock): an operation is one step.
MapperWrites == {"update", "add", "remove", "move", "removeSet"}
CallerWrites == {"insert", "delete"}

\* A step of the caller or of the mapper: the map and the heap it leaves, the
\* set the caller holds afterwards and what it was when a read returned it.
MapperStep(op, member, name, m2, h2, held2, returned2) ==
    /\ setToResources' = m2
    /\ heap' = Collect(m2, held2, h2)
    /\ held' = held2
    /\ returned' = returned2
    /\ call' = [op |-> op, member |-> member, set |-> name]
    /\ UNCHANGED <<legacy, merged, cacheVars, extractVars, copyVars, bootVars>>

\* The caller makes a set of its own, sets.New(members...), and lets go of the
\* one it held.
CallerNew(members) ==
    /\ Live(setToResources, 0) # Addrs
    /\ LET a == Fresh(setToResources, 0)
       IN MapperStep("new", "", 0, setToResources, [heap EXCEPT ![a] = members],
                     a, NotReturned)

\* The caller changes the set it holds: Insert, Delete.
CallerChanges(op, members) ==
    /\ held # 0
    /\ members # heap[held]
    /\ MapperStep(op, "", 0, setToResources, [heap EXCEPT ![held] = members], held,
                  IF returned.is THEN [is |-> TRUE, value |-> members] ELSE returned)

CallerInsert(member) == CallerChanges("insert", heap[held] \cup {member})

CallerDelete(member) == CallerChanges("delete", heap[held] \ {member})

\* m.setToResources[clusterSetName] = resources: the map takes the set of the
\* caller itself, not a copy.  UpdateClusterSetByObjects is the same.
UpdateClusterSetResources(name) ==
    /\ held # 0
    /\ MapperStep("update", "", name,
                  IF heap[held] = {} THEN Remove(setToResources, name)
                  ELSE Put(setToResources, name, held),
                  heap, held, returned)

\* The set of `name` is made when the key is missing; the member is inserted.
AddTo(m, h, hd, member, name) ==
    IF name \in DOMAIN m
    THEN [m |-> m, h |-> [h EXCEPT ![m[name]] = @ \cup {member}]]
    ELSE LET a == Fresh(m, hd)
         IN [m |-> Put(m, name, a), h |-> [h EXCEPT ![a] = {member}]]

CanAdd(m, hd, name) == name \in DOMAIN m \/ Live(m, hd) # Addrs

\* The loop over the map: the member is deleted from every set that has it,
\* the set `skip` excepted, and a set left empty loses its key.
RECURSIVE RemoveEach(_, _, _, _, _, _)
RemoveEach(m, h, order, i, member, skip) ==
    IF i > Len(order) THEN [m |-> m, h |-> h]
    ELSE LET n == order[i]
         IN IF n \notin DOMAIN m \/ n = skip THEN RemoveEach(m, h, order, i + 1, member, skip)
            ELSE IF member \notin h[m[n]] THEN RemoveEach(m, h, order, i + 1, member, skip)
            ELSE LET h2 == [h EXCEPT ![m[n]] = @ \ {member}]
                 IN RemoveEach(IF h2[m[n]] = {} THEN Remove(m, n) ELSE m, h2, order,
                               i + 1, member, skip)

AddResourceToClusterSet(member, name) ==
    /\ CanAdd(setToResources, held, name)
    /\ LET r == AddTo(setToResources, heap, held, member, name)
       IN MapperStep("add", member, name, r.m, r.h, held, returned)

RemoveResourceFromAllClusterSets(member, order) ==
    LET r == RemoveEach(setToResources, heap, order, 1, member, 0)
    IN MapperStep("remove", member, 0, r.m, r.h, held, returned)

\* MoveResourceToClusterSet removes, then adds; UpdateObjectInClusterSet of
\* the ClusterSetMapper adds, then removes.
MoveResourceToClusterSet(member, name, order) ==
    IF legacy
    THEN /\ CanAdd(setToResources, held, name)
         /\ LET a == AddTo(setToResources, heap, held, member, name)
                r == RemoveEach(a.m, a.h, order, 1, member, name)
            IN MapperStep("move", member, name, r.m, r.h, held, returned)
    ELSE LET r == RemoveEach(setToResources, heap, order, 1, member, name)
         IN /\ CanAdd(r.m, held, name)
            /\ LET a == AddTo(r.m, r.h, held, member, name)
               IN MapperStep("move", member, name, a.m, a.h, held, returned)

RemoveClusterSet(name) ==
    MapperStep("removeSet", "", name, Remove(setToResources, name), heap, held,
               returned)

\* GetResourcesInClusterSet returns a Clone of the set, or a new empty set;
\* GetObjectsOfClusterSet of the ClusterSetMapper returns the set of the map
\* itself, nil when the key is missing.
GetResourcesInClusterSet(name) ==
    IF legacy
    THEN IF name \in DOMAIN setToResources
         THEN MapperStep("getMembers", "", name, setToResources, heap,
                         setToResources[name],
                         [is |-> TRUE, value |-> heap[setToResources[name]]])
         ELSE MapperStep("getMembers", "", name, setToResources, heap, 0, NotReturned)
    ELSE /\ Live(setToResources, 0) # Addrs
         /\ LET a == Fresh(setToResources, 0)
                members == IF name \in DOMAIN setToResources
                           THEN heap[setToResources[name]] ELSE {}
            IN MapperStep("getMembers", "", name, setToResources,
                          [heap EXCEPT ![a] = members], a,
                          [is |-> TRUE, value |-> members])

InitMapper ==
    /\ NoCache
    /\ CopyIdle
    /\ ExtractIdle
    /\ legacy \in BOOLEAN
    /\ heap = [a \in Addrs |-> {}]
    /\ setToResources = Empty
    /\ held = 0
    /\ returned = NotReturned
    /\ call = NoCall
    /\ merged = NoMerge

NextMapper ==
    \/ \E members \in SUBSET Members : CallerNew(members)
    \/ \E member \in Members : CallerInsert(member) \/ CallerDelete(member)
    \/ \E name \in Names : UpdateClusterSetResources(name)
    \/ \E member \in Members, name \in Names : AddResourceToClusterSet(member, name)
    \/ \E member \in Members, order \in Orders :
          RemoveResourceFromAllClusterSets(member, order)
    \/ \E member \in Members, name \in Names, order \in Orders :
          MoveResourceToClusterSet(member, name, order)
    \/ \E name \in Names : RemoveClusterSet(name)
    \/ \E name \in Names : GetResourcesInClusterSet(name)

SpecMapper == InitMapper /\ [][NextMapper]_vars

\* ------------------------------------------------------------------- merge
\* The mappings Merge is tried on: each set name missing or with any members.
MappingValues == UNION { [S -> SUBSET Members] : S \in SUBSET Names }

\* UpdateClusterSetResources on the new mapper of Merge, as values.
UpdateValue(map, name, resources) ==
    IF resources = {} THEN Remove(map, name) ELSE Put(map, name, resources)

\* The first loop of Merge over currentMappings.
RECURSIVE MergeCurrent(_, _, _, _)
MergeCurrent(result, todo, currentMappings, otherMappings) ==
    IF todo = {} THEN result
    ELSE LET n == CHOOSE x \in todo : TRUE
             resources == IF n \in DOMAIN otherMappings
                          THEN currentMappings[n] \cup otherMappings[n]
                          ELSE currentMappings[n]
         IN MergeCurrent(UpdateValue(result, n, resources), todo \ {n},
                         currentMappings, otherMappings)

\* The second loop of Merge: what only otherMappings has.
RECURSIVE MergeOther(_, _, _, _)
MergeOther(result, todo, currentMappings, otherMappings) ==
    IF todo = {} THEN result
    ELSE LET n == CHOOSE x \in todo : TRUE
         IN MergeOther(IF n \in DOMAIN currentMappings THEN result
                       ELSE UpdateValue(result, n, otherMappings[n]),
                       todo \ {n}, currentMappings, otherMappings)

\* Mutant: for a set name of both operands the members of the receiver are
\* kept.
Merge_ReceiverWins(currentMappings, otherMappings) ==
    [n \in DOMAIN currentMappings \cup DOMAIN otherMappings |->
        IF n \in DOMAIN currentMappings THEN currentMappings[n]
        ELSE otherMappings[n]]

\* Merge of two mappers of one resource type, UnionObjectsInClusterSet of two
\* ClusterSetMappers: the mapping of the mapper returned.
Merge(currentMappings, otherMappings) ==
    IF DOMAIN currentMappings = {} THEN otherMappings
    ELSE IF DOMAIN otherMappings = {} THEN currentMappings
    ELSE MergeOther(
             MergeCurrent(Empty, DOMAIN currentMappings, currentMappings,
                          otherMappings),
             DOMAIN otherMappings, currentMappings, otherMappings)

\* m.Merge(other) and other.Merge(m).  Merge reads both operands through
\* GetAllMappings and writes to the new mapper only.
MergeCall ==
    /\ ~merged.done
    /\ merged' = [m |-> merged.m, other |-> merged.other,
                  ab |-> Merge(merged.m, merged.other),
                  ba |-> Merge(merged.other, merged.m),
                  done |-> TRUE]
    /\ UNCHANGED <<legacy, heap, setToResources, held, returned, call, cacheVars,
                   extractVars, copyVars, bootVars>>

InitMerge ==
    /\ NoCache
    /\ CopyIdle
    /\ ExtractIdle
    /\ legacy = FALSE
    /\ heap = [a \in Addrs |-> {}]
    /\ setToResources = Empty
    /\ held = 0
    /\ returned = NotReturned
    /\ call = NoCall
    /\ \E m \in MappingValues, other \in MappingValues :
          merged = [NoMerge EXCEPT !.m = m, !.other = other]

NextMerge == MergeCall

SpecMerge == InitMerge /\ [][NextMerge]_vars

\* --------------------------------------------------- concurrent handlers
\* The role informer and the binding informer call their handlers on their own
\* goroutines.  notifyWatchers takes the read side of watcherLock, so both can
\* be in GroupMembershipChanged of the same watch at once; the steps below are
\* the places where one can run between the steps of the other.  No send times
\* out here: a send waits for room.
OrderStep(t, r2) ==
    /\ notifier' = [notifier EXCEPT ![t] = r2]
    /\ lastOp' = "handler"
    /\ UNCHANGED <<clusterSets, watchers, hung, listResult, lastErr, lockVars,
                   timedOut, runVars, stopped, mapperVars, extractVars, copyVars, bootVars>>

\* The informer has stored the change and the handler has left the index idx2;
\* notifyWatchers comes next.
HandlerBegins(t, roles2, bindings2, idx2) ==
    /\ notifier[t].pc = "idle"
    /\ notifications + Cardinality({ u \in Threads : notifier[u].pc = "snapshot" })
          < MaxNotifications
    /\ clusterRoles' = roles2
    /\ clusterRoleBindings' = bindings2
    /\ userPermissions' = idx2.users
    /\ groupPermissions' = idx2.groups
    /\ OrderStep(t, [Idle EXCEPT !.pc = "snapshot"])
    /\ UNCHANGED <<knownResources, internalEvents, notifications, sent>>

RoleUpdateBegins(r, def) ==
    /\ r \in DOMAIN clusterRoles
    /\ clusterRoles[r] # def
    /\ LET roles2 == Put(clusterRoles, r, def)
       IN HandlerBegins("role", roles2, clusterRoleBindings,
                        rebuildPermissionCache(roles2, clusterRoleBindings,
                                               clusterSets, FALSE, {}))

BindingAddBegins(b, def) ==
    /\ b \notin DOMAIN clusterRoleBindings
    /\ HandlerBegins("binding", clusterRoles, Put(clusterRoleBindings, b, def),
                     processClusterRoleBinding(CurrentIndex, def, clusterRoles,
                                               clusterSets, FALSE))

BindingDeleteBegins(b) ==
    /\ b \in DOMAIN clusterRoleBindings
    /\ LET bindings2 == Remove(clusterRoleBindings, b)
       IN HandlerBegins("binding", clusterRoles, bindings2,
                        rebuildPermissionCache(clusterRoles, bindings2,
                                               clusterSets, FALSE, {}))

\* notifyWatchers builds the three sets from the index as it is now and calls
\* GroupMembershipChanged of watch w, which returns at once when the subject
\* is not among the users and groups.
BuildNotification(t, w) ==
    /\ notifier[t].pc = "snapshot"
    /\ Registered(w)
    /\ notifications' = notifications + 1
    /\ LET users == NotifiedUsers(CurrentIndex)
           groups == NotifiedGroups(CurrentIndex)
       IN OrderStep(t, IF HasAccess(w, users, groups)
                       THEN [Idle EXCEPT !.pc = "deletions",
                                         !.seq = notifications + 1,
                                         !.names = NotifiedNames(CurrentIndex),
                                         !.users = users,
                                         !.groups = groups]
                       ELSE Idle)
    /\ UNCHANGED <<clusterRoles, clusterRoleBindings, userPermissions,
                   groupPermissions, knownResources, internalEvents, sent>>

\* handleResourceDeletions: Range visits a known name; one that is not in the
\* names is deleted from the known resources before its DELETED is sent.
\* Range ends when it finds no name it has not visited.
RangeKnown(t, w) ==
    /\ notifier[t].pc = "deletions"
    /\ LET r == notifier[t]
           unvisited == DOMAIN knownResources[w] \ r.visited
       IN \/ \E n \in unvisited :
                IF n \in r.names
                THEN /\ OrderStep(t, [r EXCEPT !.visited = @ \cup {n}])
                     /\ UNCHANGED knownResources
                ELSE /\ knownResources' =
                           [knownResources EXCEPT ![w] = Remove(@, n)]
                     /\ OrderStep(t, [r EXCEPT !.visited = @ \cup {n},
                                               !.pc = "delsend", !.i = n])
          \/ /\ unvisited = {}
             /\ OrderStep(t, [r EXCEPT !.pc = "updates", !.i = 1])
             /\ UNCHANGED knownResources
    /\ UNCHANGED <<clusterRoles, clusterRoleBindings, userPermissions,
                   groupPermissions, internalEvents, notifications, sent>>

SendDeleted(t, w) ==
    /\ notifier[t].pc = "delsend"
    /\ HasRoom(internalEvents[w])
    /\ LET r == notifier[t]
       IN /\ internalEvents' =
                [internalEvents EXCEPT
                    ![w] = Append(@, Event("DELETED", r.i,
                                           ConvertResource(clusterSets, r.i)))]
          /\ sent' = [sent EXCEPT ![w] = Append(@, r.seq)]
          /\ OrderStep(t, [r EXCEPT !.pc = "deletions", !.i = 0])
    /\ UNCHANGED <<clusterRoles, clusterRoleBindings, userPermissions,
                   groupPermissions, knownResources, notifications>>

\* handleResourceUpdates, up to the decision about the next name: it is
\* skipped when Get fails or when the known resource version is the current
\* one; otherwise the event is ADDED or MODIFIED, by what Load found.
LoadKnown(t, w) ==
    /\ notifier[t].pc = "updates"
    /\ LET r == notifier[t]
           n == SortedNames[r.i]
           known == knownResources[w]
       IN IF r.i > Len(SortedNames)
          THEN OrderStep(t, Idle)
          ELSE IF n \notin r.names \/ ~GetFound(clusterSets, n)
          THEN OrderStep(t, [r EXCEPT !.i = @ + 1])
          ELSE IF n \in DOMAIN known /\ known[n] = clusterSets[n].rv
          THEN OrderStep(t, [r EXCEPT !.i = @ + 1])
          ELSE OrderStep(t, [r EXCEPT !.pc = "store",
                                      !.type = IF n \in DOMAIN known
                                               THEN "MODIFIED" ELSE "ADDED"])
    /\ UNCHANGED <<clusterRoles, clusterRoleBindings, userPermissions,
                   groupPermissions, knownResources, internalEvents,
                   notifications, sent>>

\* knownResources.Store(name, currentResourceVersion).
StoreKnown(t, w) ==
    /\ notifier[t].pc = "store"
    /\ LET r == notifier[t]
           n == SortedNames[r.i]
       IN /\ knownResources' =
                [knownResources EXCEPT ![w] = Put(@, n, clusterSets[n].rv)]
          /\ OrderStep(t, [r EXCEPT !.pc = "send"])
    /\ UNCHANGED <<clusterRoles, clusterRoleBindings, userPermissions,
                   groupPermissions, internalEvents, notifications, sent>>

\* The send of the ADDED or MODIFIED event on internalEvents.
SendUpdate(t, w) ==
    /\ notifier[t].pc = "send"
    /\ HasRoom(internalEvents[w])
    /\ LET r == notifier[t]
           n == SortedNames[r.i]
       IN /\ internalEvents' =
                [internalEvents EXCEPT
                    ![w] = Append(@, Event(r.type, n, clusterSets[n].rv))]
          /\ sent' = [sent EXCEPT ![w] = Append(@, r.seq)]
          /\ OrderStep(t, [r EXCEPT !.pc = "updates", !.i = @ + 1])
    /\ UNCHANGED <<clusterRoles, clusterRoleBindings, userPermissions,
                   groupPermissions, knownResources, notifications>>

\* Watch w1 of alice is registered and knows cluster set 2, which binding b2
\* grants her through role r2; role r1 is edited and binding b1, which binds
\* her to r1, comes and goes.
InitOrder ==
    /\ clusterRoles = [r \in RoleNames |->
                          IF r = "r1" THEN <<ViewRule({1})>>
                          ELSE <<OtherRule, ViewRule({2})>>]
    /\ clusterRoleBindings =
          [b \in {"b2"} |-> [roleRef |-> "r2", subjects |-> <<User("alice")>>]]
    /\ clusterSets = [n \in Names |-> [rv |-> 1, label |-> "x"]]
    /\ userPermissions = [u \in {"alice"} |-> {2}]
    /\ groupPermissions = Empty
    /\ watchers = <<"w1">>
    /\ knownResources = [w \in WatcherIds |-> IF w = "w1" THEN [n \in {2} |-> 1]
                                              ELSE Empty]
    /\ internalEvents = [w \in WatcherIds |-> <<>>]
    /\ hung = {}
    /\ listResult = NoList
    /\ lastOp = "init"
    /\ lastErr = FALSE
    /\ LockIdle
    /\ RunIdle
    /\ NotifierIdle
    /\ CacheRunning
    /\ CopyIdle
    /\ BootIdle
    /\ MapperIdle
    /\ ExtractIdle

NextOrder ==
    \/ \E def \in RoleDefs : RoleUpdateBegins("r1", def)
    \/ BindingAddBegins("b1", [roleRef |-> "r1", subjects |-> <<User("alice")>>])
    \/ BindingDeleteBegins("b1")
    \/ \E t \in Threads :
          \/ BuildNotification(t, "w1")
          \/ RangeKnown(t, "w1")
          \/ SendDeleted(t, "w1")
          \/ LoadKnown(t, "w1")
          \/ StoreKnown(t, "w1")
          \/ SendUpdate(t, "w1")

SpecOrder == InitOrder /\ [][NextOrder]_vars

\* A caller looking up its names while the role informer's handler rebuilds.
\* Both bindings exist and both cluster sets are in the store.
InitConc ==
    /\ clusterRoles = Empty
    /\ clusterRoleBindings \in
          { f \in BindingsOver(SubjectLists) : DOMAIN f = BindingNames }
    /\ clusterSets = [n \in Names |-> [rv |-> 1, label |-> "x"]]
    /\ userPermissions = Empty
    /\ groupPermissions = Empty
    /\ watchers = <<>>
    /\ knownResources = [w \in WatcherIds |-> Empty]
    /\ internalEvents = [w \in WatcherIds |-> <<>>]
    /\ hung = {}
    /\ listResult = NoList
    /\ lastOp = "init"
    /\ lastErr = FALSE
    /\ LockIdle
    /\ RunIdle
    /\ NotifierIdle
    /\ CacheRunning
    /\ CopyIdle
    /\ BootIdle
    /\ MapperIdle
    /\ ExtractIdle

NextConc ==
    \/ \E r \in RoleNames, def \in RoleDefs : RoleStored(r, def)
    \/ \E r \in RoleNames : RoleRemoved(r)
    \/ RebuildLock
    \/ RebuildClear
    \/ \E fail \in BOOLEAN : RebuildListBindings(fail)
    \/ \E b \in BindingNames, lf \in BOOLEAN : RebuildProcess(b, lf)
    \/ RebuildUnlock
    \/ LookupRLock
    \/ LookupUser
    \/ LookupGroups
    \/ LookupRUnlock

SpecConc == InitConc /\ [][NextConc]_vars

\* ------------------------------------------- copies between two mappers
\* The calls on two mappers a and b, taken apart at the points where a mutex
\* is acquired.  A read lock is taken and released inside one step (no call
\* acquires anything while it holds one), so a mutex is either free or
\* write-locked by a caller.
CopyStep(t, p2, mappers2, mutex2) ==
    /\ procs' = [procs EXCEPT ![t] = p2]
    /\ mappers' = mappers2
    /\ mutex' = mutex2
    /\ UNCHANGED <<cacheVars, mapperVars, extractVars, bootVars>>

\* The set names GetClusterSetForResource / GetObjectClusterset can return
\* for a member: the set of the first entry the range meets that holds it,
\* 0 for "".
Lookup(mapping, member) ==
    IF \E s \in DOMAIN mapping : member \in mapping[s]
    THEN { s \in DOMAIN mapping : member \in mapping[s] }
    ELSE {0}

\* A reader: m.mutex.RLock(), the range, RUnlock.
GetClusterSetForResource(t, m, member) ==
    /\ procs[t].pc = "idle"
    /\ mutex[m] = Unlocked
    /\ \E s \in Lookup(mappers[m], member) :
          CopyStep(t, [NoProc EXCEPT !.op = "Read", !.recv = m,
                                     !.member = member, !.res = s],
                   mappers, mutex)

\* A writer, UpdateClusterSetResources: Lock, the assignment, Unlock.
UpdateCall(t, m, name, resources) ==
    /\ ~legacy
    /\ procs[t].pc = "idle"
    /\ mutex[m] = Unlocked
    /\ CopyStep(t, [NoProc EXCEPT !.op = "Update", !.recv = m],
                [mappers EXCEPT ![m] = UpdateValue(@, name, resources)], mutex)

\* m.CopyFrom(source) is called.
CopyFromCall(t, m, source) ==
    /\ ~legacy
    /\ procs[t].pc = "idle"
    /\ CopyStep(t, [NoProc EXCEPT !.op = "CopyFrom", !.recv = m, !.src = source,
                                  !.pc = "lock", !.before = mappers[m],
                                  !.after = mappers[source]],
                mappers, mutex)

\* CopyFrom: m.mutex.Lock(); m.setToResources = make(...).
CopyFromLock(t) ==
    LET p == procs[t]
    IN /\ p.op = "CopyFrom" /\ p.pc = "lock"
       /\ mutex[p.recv] = Unlocked
       /\ CopyStep(t, [p EXCEPT !.pc = "getall"],
                   [mappers EXCEPT ![p.recv] = Empty],
                   [mutex EXCEPT ![p.recv] = t])

\* CopyFrom: source.GetAllMappings(), under source.mutex.RLock().
CopyFromGetAll(t) ==
    LET p == procs[t]
    IN /\ p.op = "CopyFrom" /\ p.pc = "getall"
       /\ mutex[p.src] = Unlocked
       /\ CopyStep(t, [p EXCEPT !.pc = "fill", !.snap = mappers[p.src]],
                   mappers, mutex)

\* CopyFrom: the loop over sourceMappings and the deferred Unlock.
CopyFromFill(t) ==
    LET p == procs[t]
    IN /\ p.op = "CopyFrom" /\ p.pc = "fill"
       /\ CopyStep(t, NoProc,
                   [mappers EXCEPT ![p.recv] = p.snap],
                   [mutex EXCEPT ![p.recv] = Unlocked])

\* m.Merge(other) is called.
MergeBegins(t, m, other) ==
    /\ ~legacy
    /\ procs[t].pc = "idle"
    /\ CopyStep(t, [NoProc EXCEPT !.op = "Merge", !.recv = m, !.src = other,
                                  !.pc = "current"],
                mappers, mutex)

\* Merge: currentMappings := m.GetAllMappings().
MergeGetCurrent(t) ==
    LET p == procs[t]
    IN /\ p.op = "Merge" /\ p.pc = "current"
       /\ mutex[p.recv] = Unlocked
       /\ CopyStep(t, [p EXCEPT !.pc = "other", !.snap = mappers[p.recv]],
                   mappers, mutex)

\* Merge: otherMappings := other.GetAllMappings(), and the loops into the new
\* mapper, which no other goroutine has.
MergeGetOther(t) ==
    LET p == procs[t]
    IN /\ p.op = "Merge" /\ p.pc = "other"
       /\ mutex[p.src] = Unlocked
       /\ CopyStep(t, [NoProc EXCEPT !.op = "Merge",
                                     !.out = Merge(p.snap, mappers[p.src])],
                   mappers, mutex)

\* Legacy c.CopyClusterSetMapper(requiredMapper) is called.
CopyClusterSetMapper(t, c, required) ==
    /\ legacy
    /\ procs[t].pc = "idle"
    /\ CopyStep(t, [NoProc EXCEPT !.op = "CopyClusterSetMapper", !.recv = c,
                                  !.src = required, !.pc = "delete",
                                  !.before = mappers[c],
                                  !.after = mappers[required]],
                mappers, mutex)

\* The first loop: the range over the map GetAllClusterSetToObjects returned
\* (the map of c itself) meets a set and DeleteClusterSet takes the lock for
\* this one delete; the range ends when the map is empty.
CopyDeletes(t) ==
    LET p == procs[t]
    IN /\ p.op = "CopyClusterSetMapper" /\ p.pc = "delete"
       /\ mutex[p.recv] = Unlocked
       /\ IF DOMAIN mappers[p.recv] = {}
          THEN CopyStep(t, [p EXCEPT !.pc = "update"], mappers, mutex)
          ELSE \E s \in DOMAIN mappers[p.recv] :
                  CopyStep(t, p, [mappers EXCEPT ![p.recv] = Remove(@, s)], mutex)

\* The second loop: the range over the map of requiredMapper meets a set not
\* yet visited and UpdateClusterSetByObjects takes the lock for this one set.
CopyUpdates(t) ==
    LET p == procs[t]
        left == DOMAIN mappers[p.src] \ p.visited
    IN /\ p.op = "CopyClusterSetMapper" /\ p.pc = "update"
       /\ mutex[p.recv] = Unlocked /\ mutex[p.src] = Unlocked
       /\ IF left = {}
          THEN CopyStep(t, NoProc, mappers, mutex)
          ELSE \E s \in left :
                  CopyStep(t, [p EXCEPT !.visited = @ \cup {s}],
                           [mappers EXCEPT
                              ![p.recv] = UpdateValue(@, s, mappers[p.src][s])],
                           mutex)

\* The next step of the call caller t is in.
Continue(t) ==
    \/ CopyFromLock(t)
    \/ CopyFromGetAll(t)
    \/ CopyFromFill(t)
    \/ MergeGetCurrent(t)
    \/ MergeGetOther(t)
    \/ CopyDeletes(t)
    \/ CopyUpdates(t)

\* The mappings of the two mappers when the calls begin: no empty set, as
\* UpdateClusterSetResources leaves them.
CopyMappings == { f \in MappingValues : \A s \in DOMAIN f : Cardinality(f[s]) = 1 }

InitCopy ==
    /\ NoCache
    /\ ExtractIdle
    /\ legacy \in BOOLEAN
    /\ heap = [a \in Addrs |-> {}]
    /\ setToResources = Empty
    /\ held = 0
    /\ returned = NotReturned
    /\ call = NoCall
    /\ merged = NoMerge
    /\ mappers \in [MapperIds -> CopyMappings]
    /\ mutex = [m \in MapperIds |-> Unlocked]
    /\ procs = [t \in Callers |-> NoProc]

\* Caller t1 replaces the content of a by that of b while t2 reads a.
NextCopy ==
    \/ CopyFromCall("t1", "a", "b")
    \/ CopyClusterSetMapper("t1", "a", "b")
    \/ CopyFromLock("t1")
    \/ CopyFromGetAll("t1")
    \/ CopyFromFill("t1")
    \/ CopyDeletes("t1")
    \/ CopyUpdates("t1")
    \/ \E member \in Members : GetClusterSetForResource("t2", "a", member)

SpecCopy == InitCopy /\ [][NextCopy]_vars

\* The new mappers, a = {1: {m1}} and b = {2: {m2}}: both callers copy and
\* merge any mapper with any other and with itself, write set 1 of b and look
\* up m1.
InitLocks ==
    /\ InitCopy
    /\ legacy = FALSE
    /\ mappers["a"] = [s \in {1} |-> {"m1"}]
    /\ mappers["b"] = [s \in {2} |-> {"m2"}]

NextLocks ==
    \E t \in Callers :
       \/ \E m \in MapperIds, source \in MapperIds : CopyFromCall(t, m, source)
       \/ \E m \in MapperIds, other \in MapperIds : MergeBegins(t, m, other)
       \/ \E resources \in {{}, {"m1"}} : UpdateCall(t, "b", 1, resources)
       \/ \E m \in MapperIds : GetClusterSetForResource(t, m, "m1")
       \/ CopyFromLock(t)
       \/ CopyFromGetAll(t)
       \/ CopyFromFill(t)
       \/ MergeGetCurrent(t)
       \/ MergeGetOther(t)

SpecLocks == InitLocks /\ [][NextLocks]_vars

\* ------------------------------------------------------- start of the cache
\* An informer of the upstream source src has delivered its initial list.  The
\* role and binding informers belong to c.informerFactory and run until c.ctx
\* is cancelled; the cluster set informer was handed to the constructor and is
\* run by its owner.
InformerSynced(src) ==
    /\ src \notin boot.synced
    /\ src \in {"roles", "bindings"} => boot.phase # "new" /\ ~stopped
    /\ boot' = [boot EXCEPT !.synced = @ \cup {src}]
    /\ lastOp' = "synced"
    /\ UNCHANGED <<clusterRoles, clusterRoleBindings, clusterSets, userPermissions,
                   groupPermissions, watchers, knownResources, internalEvents,
                   hung, listResult, lastErr, lockVars, timedOut, runVars,
                   orderVars, stopped, mapperVars, extractVars, copyVars>>

\* Start: c.informerFactory.Start(c.ctx.Done()).
StartBegins ==
    /\ boot.phase = "new"
    /\ boot' = [boot EXCEPT !.phase = "waiting"]
    /\ lastOp' = "start"
    /\ UNCHANGED <<clusterRoles, clusterRoleBindings, clusterSets, userPermissions,
                   groupPermissions, watchers, knownResources, internalEvents,
                   hung, listResult, lastErr, lockVars, timedOut, runVars,
                   orderVars, stopped, mapperVars, extractVars, copyVars>>

\* What the cluster set lister holds: every object once its informer has
\* synced, any part of them before.
ListerViews ==
    IF "sets" \in boot.synced THEN {clusterSets}
    ELSE { [n \in S |-> clusterSets[n]] : S \in SUBSET DOMAIN clusterSets }

\* Start: WaitForCacheSync on the HasSynced of the role and of the binding
\* informer has returned true; the initial rebuildPermissionCache runs.
StartRebuilds(view) ==
    /\ boot.phase = "waiting"
    /\ {"roles", "bindings"} \subseteq boot.synced
    /\ view \in ListerViews
    /\ LET idx == rebuildPermissionCache(clusterRoles, clusterRoleBindings, view,
                                         FALSE, {})
       IN /\ userPermissions' = idx.users
          /\ groupPermissions' = idx.groups
    /\ boot' = [boot EXCEPT
                  !.phase = "started",
                  !.listed = IF GlobalBindings(clusterRoles, clusterRoleBindings) # {}
                             THEN {"sets"} \ boot.synced ELSE {}]
    /\ lastOp' = "rebuild"
    /\ UNCHANGED <<clusterRoles, clusterRoleBindings, clusterSets, watchers,
                   knownResources, internalEvents, hung, listResult, lastErr,
                   lockVars, timedOut, runVars, orderVars, stopped, mapperVars,
                   extractVars, copyVars>>

\* Start: c.ctx was cancelled before both informers had synced;
\* WaitForCacheSync returns false and Start returns the error.
StartFails ==
    /\ boot.phase = "waiting"
    /\ stopped
    /\ ~({"roles", "bindings"} \subseteq boot.synced)
    /\ boot' = [boot EXCEPT !.phase = "failed"]
    /\ lastOp' = "startFailed"
    /\ UNCHANGED <<clusterRoles, clusterRoleBindings, clusterSets, userPermissions,
                   groupPermissions, watchers, knownResources, internalEvents,
                   hung, listResult, lastErr, lockVars, timedOut, runVars,
                   orderVars, stopped, mapperVars, extractVars, copyVars>>

\* A cache just constructed over stores that hold both roles, bindings of
\* them and both cluster sets; no informer has synced.
InitBoot ==
    /\ clusterRoles \in [RoleNames -> RoleDefs]
    /\ clusterRoleBindings \in
          { f \in BindingsOver(SubjectLists) : DOMAIN f # {} }
    /\ clusterSets = [n \in Names |-> [rv |-> 1, label |-> "x"]]
    /\ userPermissions = Empty
    /\ groupPermissions = Empty
    /\ watchers = <<>>
    /\ knownResources = [w \in WatcherIds |-> Empty]
    /\ internalEvents = [w \in WatcherIds |-> <<>>]
    /\ hung = {}
    /\ listResult = NoList
    /\ lastOp = "init"
    /\ lastErr = FALSE
    /\ LockIdle
    /\ RunIdle
    /\ NotifierIdle
    /\ CacheRunning
    /\ CopyIdle
    /\ boot = [phase |-> "new", synced |-> {}, listed |-> {}]
    /\ MapperIdle
    /\ ExtractIdle

NextBoot ==
    \/ \E src \in Sources : InformerSynced(src)
    \/ StartBegins
    \/ \E view \in ListerViews : StartRebuilds(view)
    \/ StartFails
    \/ CacheStop

SpecBoot == InitBoot /\ [][NextBoot]_vars

\* ------------------------------------------------------------------ claims
IndexOf(kind, name) ==
    IF kind = "User"
    THEN (IF name \in DOMAIN userPermissions THEN userPermissions[name] ELSE {})
    ELSE (IF name \in DOMAIN groupPermissions THEN groupPermissions[name] ELSE {})

IndexKeys ==
    { <<"User", u>> : u \in DOMAIN userPermissions }
    \cup { <<"Group", g>> : g \in DOMAIN groupPermissions }

Names_(b, kind, name) ==
    \E i \in 1..Len(clusterRoleBindings[b].subjects) :
       clusterRoleBindings[b].subjects[i] = [kind |-> kind, name |-> name]

RoleOf(b) == clusterRoles[clusterRoleBindings[b].roleRef]

HasRole(b) == clusterRoleBindings[b].roleRef \in DOMAIN clusterRoles

Extracted(b) == GetViewResourceFromClusterRole(RoleOf(b), TargetGroup, TargetResource)

\* What binding b grants: the names of its role, or every cluster set in the
\* store when the role is global.
YieldOf(b) ==
    IF ~HasRole(b) THEN {}
    ELSE IF Extracted(b).all THEN DOMAIN clusterSets ELSE Extracted(b).names

Subjects == { <<"User", u>> : u \in Users } \cup { <<"Group", g>> : g \in Groups }

\* C5 as stated: after every completed rebuild every name of every subject's
\* set is the name of a resource in the resource store.
C5_NoPhantomNames ==
    lastOp = "rebuild" =>
        \A k \in IndexKeys : IndexOf(k[1], k[2]) \subseteq DOMAIN clusterSets

ExplicitlyGranted(kind, name, n) ==
    \E b \in DOMAIN clusterRoleBindings :
       /\ Names_(b, kind, name)
       /\ HasRole(b)
       /\ ~Extracted(b).all
       /\ n \in Extracted(b).names

\* C5 amended: after every completed rebuild every name of a subject's set is
\* in the resource store or is listed in the resource-names of a role that an
\* existing binding binds to the subject.
C5_PresentOrExplicit ==
    lastOp = "rebuild" =>
        \A k \in IndexKeys : \A n \in IndexOf(k[1], k[2]) :
           n \in DOMAIN clusterSets \/ ExplicitlyGranted(k[1], k[2], n)

C5_Witness ==
    /\ lastOp = "rebuild"
    /\ \E k \in IndexKeys : \E n \in IndexOf(k[1], k[2]) : n \notin DOMAIN clusterSets
    /\ \E b \in DOMAIN clusterRoleBindings : HasRole(b) /\ Extracted(b).all

\* C6: after a rebuild that met no read error, every subject of every binding
\* holds all the names the binding yields; several bindings of one subject
\* accumulate.
C6_Completeness ==
    (lastOp = "rebuild" /\ ~lastErr) =>
        \A b \in DOMAIN clusterRoleBindings : \A k \in Subjects :
           Names_(b, k[1], k[2]) => YieldOf(b) \subseteq IndexOf(k[1], k[2])

C6_Witness ==
    /\ lastOp = "rebuild" /\ ~lastErr
    /\ DOMAIN clusterRoleBindings = BindingNames
    /\ \A b \in BindingNames : Names_(b, "User", "alice") /\ HasRole(b) /\ ~Extracted(b).all
    /\ YieldOf("b1") # YieldOf("b2")
    /\ IndexOf("User", "alice") = YieldOf("b1") \cup YieldOf("b2")

Justified(kind, name, n) ==
    \E b \in DOMAIN clusterRoleBindings :
       /\ Names_(b, kind, name)
       /\ HasRole(b)
       /\ \/ ~Extracted(b).all /\ n \in Extracted(b).names
          \/ Extracted(b).all /\ n \in DOMAIN clusterSets

\* C7: at every moment every name of a subject's set is justified by an
\* existing binding of the subject whose existing role yields it, or yields
\* global access with the name present in the resource store.
C7_Soundness ==
    \A k \in IndexKeys : \A n \in IndexOf(k[1], k[2]) : Justified(k[1], k[2], n)

\* C8: after a rebuild that met no read error, a subject that some binding
\* grants global access holds the name of every resource of the store.
C8_GlobalSnapshot ==
    (lastOp = "rebuild" /\ ~lastErr) =>
        \A b \in DOMAIN clusterRoleBindings : \A k \in Subjects :
           (Names_(b, k[1], k[2]) /\ HasRole(b) /\ Extracted(b).all)
               => DOMAIN clusterSets \subseteq IndexOf(k[1], k[2])

C8_Witness ==
    /\ lastOp = "rebuild" /\ ~lastErr
    /\ DOMAIN clusterSets = Names
    /\ \E b \in DOMAIN clusterRoleBindings :
          Names_(b, "Group", "ops") /\ HasRole(b) /\ Extracted(b).all
    /\ IndexOf("Group", "ops") = Names

\* C9: a rebuild that meets an upstream read error leaves the index as it was.
C9_FailedRebuildKeepsIndex ==
    [][(lastOp' = "rebuild" /\ lastErr')
          => (userPermissions' = userPermissions /\ groupPermissions' = groupPermissions)]_vars

VisibleTo(userName, userGroups) ==
    { n \in Names :
        \/ n \in IndexOf("User", userName)
        \/ \E g \in userGroups : n \in IndexOf("Group", g) }

\* C4: List returns exactly the resources whose name is in the index set of
\* the caller's user or of one of the caller's groups, that exist in the
\* resource store and whose labels satisfy the selector; a name without a
\* resource is dropped and does not fail the call.
C4_ListExact ==
    lastOp = "list" =>
        LET r == listResult
            visible == VisibleTo(r.user, r.groups)
        IN /\ r.err <=> (visible \cap r.getFails # {})
           /\ ~r.err =>
                /\ \A o \in r.items :
                      /\ o.name \in visible
                      /\ o.name \in DOMAIN clusterSets
                      /\ o = ObjectOf(clusterSets, o.name)
                      /\ r.selector \in {Everything, o.label}
                /\ \A n \in visible \cap DOMAIN clusterSets :
                      r.selector \in {Everything, clusterSets[n].label}
                          => \E o \in r.items : o.name = n

C4_Witness ==
    /\ lastOp = "list"
    /\ ~listResult.err
    /\ listResult.groups # {}
    /\ IndexOf("User", listResult.user) # VisibleTo(listResult.user, listResult.groups)
    /\ \E n \in VisibleTo(listResult.user, listResult.groups) : n \notin DOMAIN clusterSets
    /\ Cardinality(listResult.items) = 1

\* ------------------------------------------------------------ watch streams
\* The names the index lets the subject of watch w see.
SeenBy(users, groups, w) ==
    { n \in Names :
        \/ UserOf(w) \in DOMAIN users /\ n \in users[UserOf(w)]
        \/ \E g \in GroupsOf(w) : g \in DOMAIN groups /\ n \in groups[g] }

\* The events a step puts on the stream of watch w, and those that name n.
Emitted(w) ==
    SubSeq(internalEvents'[w], Len(internalEvents[w]) + 1, Len(internalEvents'[w]))

EmittedFor(w, n) == LET IsN(e) == e.name = n IN SelectSeq(Emitted(w), IsN)

\* A role or binding change whose handler ran to its end on every watch.
PermissionChange == lastOp' \in {"rebuild", "add"} /\ hung' = {}

\* C1: every ADDED or MODIFIED event of a watch names a resource the subject
\* may see at that moment; only a DELETED of a name the watch had announced may
\* name a resource outside the subject's sets.
C1_OnlyPermittedEvents ==
    [][\A w \in WatcherIds : \A i \in DOMAIN Emitted(w) :
          LET e == Emitted(w)[i]
          IN \/ e.name \in SeenBy(userPermissions', groupPermissions', w)
             \/ e.type = "DELETED" /\ e.name \in DOMAIN knownResources[w]]_vars

\* C2: when a role or binding change takes a name the watch has announced from
\* visible to not visible to the subject, the stream receives exactly one
\* DELETED for the name and nothing else for it, whatever the sets of the
\* other subjects hold.  Stated for the subjects that keep an entry in the
\* index after the change.
C2_ExactlyOneDeleted ==
    [][\A w \in WatcherIds : \A n \in Names :
          ( /\ PermissionChange
            /\ Registered(w)
            /\ HasAccess(w, DOMAIN userPermissions', DOMAIN groupPermissions')
            /\ n \in DOMAIN knownResources[w]
            /\ n \in SeenBy(userPermissions, groupPermissions, w)
            /\ n \notin SeenBy(userPermissions', groupPermissions', w) )
          => /\ Len(EmittedFor(w, n)) = 1
             /\ EmittedFor(w, n)[1].type = "DELETED"]_vars

\* C3: when a role or binding change takes a name of the resource store from
\* not visible to visible to the subject, the stream receives exactly one
\* ADDED for the name, on the incremental path as on the rebuild path.
C3_ExactlyOneAdded ==
    [][\A w \in WatcherIds : \A n \in Names :
          ( /\ PermissionChange
            /\ Registered(w)
            /\ n \in DOMAIN clusterSets
            /\ n \notin SeenBy(userPermissions, groupPermissions, w)
            /\ n \in SeenBy(userPermissions', groupPermissions', w) )
          => /\ Len(EmittedFor(w, n)) = 1
             /\ EmittedFor(w, n)[1].type = "ADDED"]_vars

\* Whether some binding grants the subject of watch w a role with global access.
GloballyGranted(w) ==
    \E b \in DOMAIN clusterRoleBindings :
       /\ HasRole(b)
       /\ Extracted(b).all
       /\ \/ Names_(b, "User", UserOf(w))
          \/ \E g \in GroupsOf(w) : Names_(b, "Group", g)

C12_RemovedSubjectFlushed ==
    [][\A w \in WatcherIds :
          ( /\ PermissionChange
            /\ Registered(w)
            /\ HasAccess(w, DOMAIN userPermissions, DOMAIN groupPermissions)
            /\ ~HasAccess(w, DOMAIN userPermissions', DOMAIN groupPermissions') )
          => /\ knownResources'[w] = Empty
             /\ \A n \in DOMAIN knownResources[w] :
                   /\ Len(EmittedFor(w, n)) = 1
                   /\ EmittedFor(w, n)[1].type = "DELETED"]_vars

\* C13: a name the watch knows whose resource has vanished from the store is
\* dropped from known-resources with a DELETED on the next notification the
\* subject takes part in, also when the notification still lists the name.
C13_VanishedResourceDeleted ==
    [][\A w \in WatcherIds : \A n \in Names :
          ( /\ PermissionChange
            /\ Registered(w)
            /\ HasAccess(w, DOMAIN userPermissions', DOMAIN groupPermissions')
            /\ n \in DOMAIN knownResources[w]
            /\ n \notin DOMAIN clusterSets )
          => /\ n \notin DOMAIN knownResources'[w]
             /\ \E i \in DOMAIN Emitted(w) :
                   Emitted(w)[i].type = "DELETED" /\ Emitted(w)[i].name = n]_vars

\* ------------------------------------------------------------ send timeouts
\* What GroupMembershipChanged leaves of a watch that it ran to its end for the
\* index users/groups: a watch of a subject in the notification knows exactly
\* the notified names that are in the store, at their resource versions.
Notified(w, users, groups, known) ==
    HasAccess(w, DOMAIN users, DOMAIN groups) =>
       LET names == NotifiedNames([users |-> users, groups |-> groups])
       IN /\ DOMAIN known \subseteq names
          /\ \A n \in names \cap DOMAIN clusterSets :
                /\ n \in DOMAIN known
                /\ known[n] = clusterSets[n].rv

\* C14: when the send to one watch times out during a fan-out, the fan-out
\* still runs to its end: every other registered watch is handed that
\* notification (and the handlers of later changes still run).
C14_FanOutCompletes ==
    [][\A w \in WatcherIds :
          ( /\ lastOp' \in {"rebuild", "add", "stalled"}
            /\ Registered(w)
            /\ w \notin timedOut' )
          => /\ lastOp' # "stalled"
             /\ Notified(w, userPermissions', groupPermissions',
                         knownResources'[w])]_vars

\* C15: a watch whose send timed out is taken out of the set of registered
\* watches (and is then handed its ERROR and stops).  handleEventTimeout
\* removes the watch before it returns to the handler, so a finished handler
\* step leaves no timed-out watch registered.
C15_TimedOutWatchRemoved ==
    \A w \in timedOut : ~Registered(w)

\* ------------------------------------------------------------ life of a watch
\* C16: on every stream ERROR occurs at most once and is the last event.
C16_ErrorIsLast ==
    \A w \in WatcherIds : \A i \in DOMAIN stream[w] :
       stream[w][i].type = "ERROR" => i = Len(stream[w])

\* Whether the sequence objs lists every object of the cache once, at its
\* resource version.
ListsOnce(objs, sets) ==
    /\ Len(objs) = Cardinality(DOMAIN sets)
    /\ \A n \in DOMAIN sets :
          \E i \in DOMAIN objs : objs[i] = [name |-> n, rv |-> sets[n].rv]

\* C18: a watch created with include-existing keeps one initial resource for
\* each object visible at its construction, and as long as it is neither
\* cancelled nor timed out the first events of its stream are the ADDED of
\* these resources, one each: no event of a notification comes before them,
\* whenever the notification was delivered.
C18_InitialEventsFirst ==
    [][\A w \in WatcherIds :
          /\ (w \notin created /\ w \in created')
                => ListsOnce(initialResources'[w], clusterSets)
          /\ w \in created => initialResources'[w] = initialResources[w]
          /\ (stream'[w] # stream[w] /\ ~ctxDone[w] /\ w \notin timedOut)
                => LET p == Len(stream'[w])
                   IN /\ SubSeq(stream'[w], 1, p - 1) = stream[w]
                      /\ p <= Len(initialResources[w])
                            => stream'[w][p] =
                                  Event("ADDED", initialResources[w][p].name,
                                        initialResources[w][p].rv)]_vars

\* Both initial resources were received, then the DELETED of a notification.
C18_Witness ==
    /\ ~ctxDone["w1"]
    /\ "w1" \notin timedOut
    /\ Len(initialResources["w1"]) = 2
    /\ Len(stream["w1"]) = 3
    /\ stream["w1"][3].type = "DELETED"

\* C19: a Stop that follows a Stop changes nothing of the watch and emits no
\* event, and the stream of a watch whose event loop has returned was closed
\* once.
C19_SecondStopIsNoOp ==
    [][\A w \in WatcherIds :
          /\ (stopCalls'[w] > stopCalls[w] /\ stopCalls[w] >= 1 /\ ~started[w])
                => UNCHANGED <<clusterSets, watchers, knownResources,
                               internalEvents, timedOut, created, started,
                               ctxDone, errors, initialResources, runs, stream,
                               closes>>
          /\ Len(runs'[w]) = 1 =>
                /\ closes'[w] <= 1
                /\ runs'[w][1].pc = "done" => closes'[w] = 1]_vars

\* The second Stop has returned; the event loop had returned on the first and
\* closed the stream.
C19_Witness ==
    /\ lastOp = "stop"
    /\ stopCalls["w1"] = 2
    /\ ctxDone["w1"]
    /\ timedOut = {}
    /\ Len(runs["w1"]) = 1
    /\ runs["w1"][1].pc = "done"
    /\ closes["w1"] = 1
    /\ stream["w1"] # <<>>

\* C20: a watch that was stopped stays stopped: no second event loop is run
\* and the stream is not closed a second time.
C20_StoppedStaysStopped ==
    \A w \in WatcherIds :
       /\ Len(runs[w]) <= 1
       /\ closes[w] <= 1

\* C21: Stop takes a watch to stopped from any state, the state of a watch
\* that was constructed and never started included: when Stop returns the
\* context of the watch is cancelled.
C21_StopIsTerminal ==
    [][\A w \in WatcherIds :
          stopCalls'[w] > stopCalls[w] => ctxDone'[w]]_vars

\* C22: once a watch with a running event loop is stopped, or its parent
\* context cancelled, the event loop exits and the stream is closed, whether or
\* not the client reads and whatever the queue holds.
C22_StopClosesStream ==
    \A w \in WatcherIds :
       (ctxDone[w] /\ runs[w] # <<>>) ~> (closes[w] >= 1)

\* C23: once the context of the cache is cancelled, the stream of every watch
\* registered with the cache is closed.
C23_CacheStopClosesWatches ==
    stopped ~> (\A w \in WatcherIds : Registered(w) => closes[w] >= 1)

Contributing(rules) ==
    { i \in 1..Len(rules) : RuleContributes(rules[i], TargetGroup, TargetResource) }

FirstGlobal(rules) ==
    LET global == { i \in Contributing(rules) : rules[i].resourceNames = {} }
    IN IF global = {} THEN 0 ELSE CHOOSE i \in global : \A j \in global : i <= j

NamesBefore(rules, k) ==
    UNION { rules[i].resourceNames : i \in { j \in Contributing(rules) : j < k } }

\* C25: the extractor returns (empty set, global) once it meets a contributing
\* rule without resource names, whatever the rules before it named; otherwise
\* the union of the names of the contributing rules, not global.
C25_GlobalReturnsEmpty ==
    extracted.done =>
        IF FirstGlobal(extracted.rules) # 0
        THEN extracted.all /\ extracted.names = {}
        ELSE /\ ~extracted.all
             /\ extracted.names = NamesBefore(extracted.rules, Len(extracted.rules) + 1)

\* C25 as the code has it: at the first contributing rule without resource
\* names the extractor returns global together with the names the contributing
\* rules before it supplied; otherwise the union of the names of the
\* contributing rules, not global.
C25_GlobalReturnsNamesSoFar ==
    extracted.done =>
        IF FirstGlobal(extracted.rules) # 0
        THEN /\ extracted.all
             /\ extracted.names =
                    NamesBefore(extracted.rules, FirstGlobal(extracted.rules))
        ELSE /\ ~extracted.all
             /\ extracted.names = NamesBefore(extracted.rules, Len(extracted.rules) + 1)

C25_Witness ==
    /\ extracted.done
    /\ FirstGlobal(extracted.rules) = 2
    /\ extracted.all
    /\ extracted.names = {1}

Placement(m, h, member) == { n \in DOMAIN m : member \in h[m[n]] }

\* C27: a move is one step under the lock of the mapper, and after it the
\* member is in the set it was moved to and in no other, while every other
\* member is where it was.
C27_MoveIsAtomic ==
    [][call'.op = "move" =>
          /\ Placement(setToResources', heap', call'.member) = {call'.set}
          /\ \A q \in Members \ {call'.member} :
                Placement(setToResources', heap', q)
                    = Placement(setToResources, heap, q)]_vars

\* C28: what a read of the mapper returned is a copy: a change the caller
\* makes to it leaves the mapping as it was, and a later write of the mapper
\* leaves it as it was.
C28_ReadsAreCopies ==
    [][(returned.is /\ returned'.is /\ held' = held) =>
          /\ call'.op \in CallerWrites
                => Mapping(setToResources', heap') = Mapping(setToResources, heap)
          /\ call'.op \in MapperWrites => heap'[held] = heap[held]]_vars

\* What GetResourcesInClusterSet reads in a mapping.
MembersIn(map, n) == IF n \in DOMAIN map THEN map[n] ELSE {}

\* C29: the merge of two mappers of one resource type holds, for every set
\* name of either operand, the union of the members the operands have for it;
\* the operands are as they were, and the mapping is the same whichever of
\* them is the receiver.
C29_MergeIsUnion ==
    /\ [](merged.done =>
            /\ \A n \in DOMAIN merged.m \cup DOMAIN merged.other :
                  MembersIn(merged.ab, n)
                      = MembersIn(merged.m, n) \cup MembersIn(merged.other, n)
            /\ DOMAIN merged.ab \subseteq DOMAIN merged.m \cup DOMAIN merged.other
            /\ merged.ab = merged.ba)
    /\ [][merged'.m = merged.m /\ merged'.other = merged.other]_vars

C29_Witness ==
    /\ merged.done
    /\ merged.m = (1 :> {"m1"})
    /\ merged.other = (1 :> {"m2"}) @@ (2 :> {"m1"})
    /\ merged.ab = (1 :> {"m1", "m2"}) @@ (2 :> {"m1"})

NoEmptySet ==
    \A n \in DOMAIN setToResources : heap[setToResources[n]] # {}

\* C30: an update with an empty set deletes the key, and no write of the
\* mapper leaves a set name that maps to an empty set.
C30_NoEmptySets ==
    [][call'.op \in MapperWrites =>
          /\ (call'.op = "update" /\ heap[held] = {})
                => call'.set \notin DOMAIN setToResources'
          /\ NoEmptySet => NoEmptySet']_vars

\* The events for name n that a handler appended to the queue `before`.
AppendedFor(before, after, n) ==
    LET IsN(e) == e.name = n
    IN SelectSeq(SubSeq(after, Len(before) + 1, Len(after)), IsN)

\* What GroupMembershipChanged of watch w does with a notification arriving now.
Outcome(w, names, users, groups, order) ==
    ReturningGroupMembershipChanged(w, knownResources[w], internalEvents[w],
                                    names, users, groups, clusterSets, order)

\* C31: a notification in which the subject of the watch takes part, and whose
\* sends all went through, enqueues for each name exactly: one DELETED, and the
\* name is dropped, when it is known and not among the names; one ADDED with
\* the resource version recorded when it is among the names, can be fetched and
\* is not known; one MODIFIED with the new version recorded when it is known
\* with another version; nothing otherwise.  The same notification handed
\* over again enqueues nothing.
C31_EventsPerName ==
    \A names \in SUBSET Names, users \in SUBSET Users, groups \in SUBSET Groups,
       order \in Orders :
       LET r == Outcome("w1", names, users, groups, order)
       IN (Registered("w1") /\ HasAccess("w1", users, groups) /\ ~r.timedOut)
          => /\ \A n \in Names :
                   LET known == knownResources["w1"]
                       e == AppendedFor(internalEvents["w1"], r.queue, n)
                   IN IF n \in DOMAIN known /\ n \notin names
                      THEN /\ Len(e) = 1
                           /\ e[1].type = "DELETED" /\ e[1].name = n
                           /\ n \notin DOMAIN r.known
                      ELSE IF n \in names /\ GetFound(clusterSets, n)
                              /\ n \notin DOMAIN known
                      THEN /\ e = <<Event("ADDED", n, clusterSets[n].rv)>>
                           /\ n \in DOMAIN r.known
                           /\ r.known[n] = clusterSets[n].rv
                      ELSE IF n \in names /\ GetFound(clusterSets, n)
                              /\ known[n] # clusterSets[n].rv
                      THEN /\ e = <<Event("MODIFIED", n, clusterSets[n].rv)>>
                           /\ n \in DOMAIN r.known
                           /\ r.known[n] = clusterSets[n].rv
                      ELSE /\ e = <<>>
                           /\ (n \in DOMAIN r.known) = (n \in DOMAIN known)
                           /\ n \in DOMAIN known => r.known[n] = known[n]
             /\ LET again == ReturningGroupMembershipChanged(
                                 "w1", r.known, r.queue, names, users, groups,
                                 clusterSets, order)
                IN /\ again.known = r.known
                   /\ again.queue = r.queue

C31_Witness ==
    /\ lastOp = "notify"
    /\ "w1" \notin timedOut
    /\ internalEvents["w1"] = <<Event("DELETED", 2, 0), Event("MODIFIED", 1, 2)>>
    /\ DOMAIN knownResources["w1"] = {1}
    /\ knownResources["w1"][1] = 2

\* C32: a notification whose users do not hold the user of the watch and whose
\* groups hold none of its groups leaves the watch as it was: known-resources
\* unchanged, nothing enqueued.
C32_OthersNotificationIgnored ==
    \A names \in SUBSET Names, users \in SUBSET Users, groups \in SUBSET Groups,
       order \in Orders :
       LET r == Outcome("w1", names, users, groups, order)
       IN (UserOf("w1") \notin users /\ GroupsOf("w1") \cap groups = {})
          => /\ r.known = knownResources["w1"]
             /\ r.queue = internalEvents["w1"]
             /\ ~r.timedOut

C32_Witness ==
    /\ lastOp = "notify"
    /\ clusterSets # Empty
    /\ knownResources["w1"] = Empty
    /\ internalEvents["w1"] = <<>>
    /\ Registered("w1")

\* C37: a notification changes the known-resources entry of a name only
\* together with an event for the name that it placed on the internal queue;
\* when an enqueue is abandoned the entry is what it was.
C37_KnownFollowsQueue ==
    \A names \in SUBSET Names, users \in SUBSET Users, groups \in SUBSET Groups,
       order \in Orders : \A n \in Names :
       LET r == Outcome("w1", names, users, groups, order)
           known == knownResources["w1"]
       IN (Registered("w1")
           /\ \/ (n \in DOMAIN r.known) # (n \in DOMAIN known)
              \/ n \in DOMAIN known /\ n \in DOMAIN r.known
                 /\ r.known[n] # known[n])
          => AppendedFor(internalEvents["w1"], r.queue, n) # <<>>

\* The events from position i on fit the names announced so far: ADDED of a
\* name not announced, MODIFIED and DELETED of a name that is.
RECURSIVE WellFormed(_, _, _)
WellFormed(events, i, announced) ==
    IF i > Len(events) THEN TRUE
    ELSE LET e == events[i]
         IN IF e.type = "ADDED"
            THEN e.name \notin announced
                 /\ WellFormed(events, i + 1, announced \cup {e.name})
            ELSE IF e.type = "DELETED"
            THEN e.name \in announced
                 /\ WellFormed(events, i + 1, announced \ {e.name})
            ELSE e.name \in announced /\ WellFormed(events, i + 1, announced)

\* C36: the events of a watch are well-formed for every name whatever way the
\* notifications of concurrent handlers interleave: from the initial snapshot
\* {2} on, ADDED only of a name not announced, MODIFIED and DELETED only of an
\* announced one.
C36_WellFormedStream == WellFormed(internalEvents["w1"], 1, {2})

\* C33: a watch whose event loop has ended (run has left its loop, for a
\* stop, a cancelled context or an error) is taken out of the watcher set of
\* the cache.
C33_EndedWatchRemoved ==
    \A w \in WatcherIds :
       (\E g \in DOMAIN runs[w] : runs[w][g].pc = "exit") ~> ~Registered(w)

\* C34: Start rebuilds the index only once every upstream source has synced,
\* the resource store included, so the initial rebuild lists no store that has
\* not synced; a Start whose sync did not complete returns without a rebuild.
C34_RebuildAfterEverySync ==
    /\ boot.phase = "started" => boot.listed = {}
    /\ boot.phase = "failed" => CurrentIndex = EmptyIndex

\* The bindings a rebuild skips: the role is absent, or the cluster set lister
\* fails at the global expansion of the binding.
Skipped(roles, bindings, failSets) ==
    { b \in DOMAIN bindings :
         \/ bindings[b].roleRef \notin DOMAIN roles
         \/ b \in failSets /\ IsGlobal(b, roles, bindings) }

Without(bindings, S) == [b \in DOMAIN bindings \ S |-> bindings[b]]

\* C35: a rebuild skips a binding whose role is absent or that cannot be
\* processed; the index it leaves is that of the rebuild over the other
\* bindings alone.
C35_SkippedBindingLeavesOthers ==
    /\ \A failSets \in SUBSET DOMAIN clusterRoleBindings :
          \A S \in SUBSET Skipped(clusterRoles, clusterRoleBindings, failSets) :
             rebuildPermissionCache(clusterRoles, clusterRoleBindings, clusterSets,
                                    FALSE, failSets)
             = rebuildPermissionCache(clusterRoles, Without(clusterRoleBindings, S),
                                      clusterSets, FALSE, failSets \ S)
    /\ (lastOp = "rebuild" /\ ~lastErr)
          => CurrentIndex
             = rebuildPermissionCache(
                   clusterRoles,
                   Without(clusterRoleBindings,
                           Skipped(clusterRoles, clusterRoleBindings, {})),
                   clusterSets, FALSE, {})

C35_Witness ==
    /\ lastOp = "rebuild"
    /\ ~lastErr
    /\ DOMAIN clusterRoleBindings = BindingNames
    /\ "r1" \notin DOMAIN clusterRoles
    /\ "r2" \in DOMAIN clusterRoles
    /\ CurrentIndex # EmptyIndex

\* C38: when the index equals the full rebuild over the stores, the handler
\* of an added binding leaves it equal to the full rebuild over the stores
\* with the new binding (a cluster set list that fails for the new binding
\* failing in the rebuild as well).
C38_IncrementalEqualsRebuild ==
    [][( /\ lastOp' = "add"
         /\ CurrentIndex = rebuildPermissionCache(
                               clusterRoles, clusterRoleBindings, clusterSets,
                               FALSE, {}) )
       => /\ clusterRoles' = clusterRoles
          /\ clusterSets' = clusterSets
          /\ [users |-> userPermissions', groups |-> groupPermissions']
             = rebuildPermissionCache(
                   clusterRoles', clusterRoleBindings', clusterSets', FALSE,
                   IF lastErr'
                   THEN DOMAIN clusterRoleBindings' \ DOMAIN clusterRoleBindings
                   ELSE {})]_vars

C38_Witness ==
    /\ lastOp = "add"
    /\ ~lastErr
    /\ DOMAIN clusterRoleBindings = BindingNames
    /\ DOMAIN clusterRoles = RoleNames
    /\ DOMAIN userPermissions = Users
    /\ CurrentIndex = rebuildPermissionCache(
                          clusterRoles, clusterRoleBindings, clusterSets, FALSE, {})

\* A copy into mapper m is under way.
Copying(t) ==
    /\ procs[t].op \in {"CopyFrom", "CopyClusterSetMapper"}
    /\ procs[t].pc # "idle"

\* C39: while the content of a mapper is replaced from another mapper, a
\* reader that gets the read lock finds the mapping of before the copy or the
\* mapping copied, never an empty or a partial one.
C39_CopyIsAtomic ==
    \A t \in Callers :
       (Copying(t) /\ mutex[procs[t].recv] = Unlocked)
       => mappers[procs[t].recv] \in {procs[t].before, procs[t].after}

\* C40: no call on the mappers waits for ever: while a call is under way, the
\* call of some caller can take its next step.
C40_CallsReturn ==
    (\E t \in Callers : procs[t].pc # "idle")
    => ENABLED (\E t \in Callers : Continue(t))

\* ------------------------------------------------------ order of the events
\* C17: in the stream of a watch the events for one name come in the order of
\* the notifications that caused them, however the handlers of the two
\* informers interleave.  (internalEvents is first in, first out and nothing
\* is taken from it in these runs.)
C17_PerNameOrder ==
    \A w \in WatcherIds : \A i, j \in DOMAIN sent[w] :
       ( /\ i < j
         /\ internalEvents[w][i].name = internalEvents[w][j].name )
       => sent[w][i] <= sent[w][j]

\* --------------------------------------------------------- concurrent reads
\* What index idx lets the caller of the lock-level lookups see.
ReadableIn(idx) ==
    { n \in Names :
        \/ ReadUser \in DOMAIN idx.users /\ n \in idx.users[ReadUser]
        \/ \E g \in ReadGroups : g \in DOMAIN idx.groups /\ n \in idx.groups[g] }

\* C10: a lookup that runs while a rebuild is under way returns what the index
\* held before the rebuild or what it holds after it, never what a cleared or
\* half-filled index holds; a lookup begun after the rebuild returns what the
\* rebuild left.
C10_SnapshotRead ==
    /\ (rpc = "unlock" \/ lastOp = "lookup") =>
          \E idx \in seen : acc = ReadableIn(idx)
    /\ (rpc # "idle" /\ ~mu.writer) => seen = {committed}

C10_Witness ==
    /\ lastOp = "lookup"
    /\ pc = "lock"
    /\ acc = Names
    /\ ReadableIn(committed) = Names
    /\ \E b \in BindingNames : ~HasRole(b)

====
